---------------------------- MODULE Spec2Model ----------------------------
(***************************************************************************)
(* A model of the fusion-server event dispatch core                        *)
(* (src/src/fusion-server.ts, src/src/core/utils/pattern-matcher.ts,       *)
(* src/src/core/classes/fusion-response.ts, src/src/decorators/get.ts).    *)
(*                                                                         *)
(* JavaScript values are tagged records.  A JavaScript string is the       *)
(* sequence of its characters, so that prefix tests, splitting and         *)
(* serialisation are computed and not assumed.  An object is the sequence  *)
(* of its own (key, value) pairs in insertion order.                       *)
(***************************************************************************)
EXTENDS Integers, Sequences, FiniteSets, TLC

(***************************************************************************)
(* String literals of the source, as character sequences.                  *)
(***************************************************************************)
S_event == <<"e", "v", "e", "n", "t">>
S_httpMethod == <<"h", "t", "t", "p", "M", "e", "t", "h", "o", "d">>
S_resource == <<"r", "e", "s", "o", "u", "r", "c", "e">>
S_headers == <<"h", "e", "a", "d", "e", "r", "s">>
S_origin == <<"o", "r", "i", "g", "i", "n">>
S_Origin == <<"O", "r", "i", "g", "i", "n">>
S_requestContext == <<"r", "e", "q", "u", "e", "s", "t", "C", "o", "n", "t", "e", "x", "t">>
S_requestId == <<"r", "e", "q", "u", "e", "s", "t", "I", "d">>
S_message == <<"m", "e", "s", "s", "a", "g", "e">>
S_code == <<"c", "o", "d", "e">>
S_length == <<"l", "e", "n", "g", "t", "h">>
S_constructor == <<"c", "o", "n", "s", "t", "r", "u", "c", "t", "o", "r">>
S_toString == <<"t", "o", "S", "t", "r", "i", "n", "g">>
S_null == <<"n", "u", "l", "l">>
S_true == <<"t", "r", "u", "e">>
S_false == <<"f", "a", "l", "s", "e">>
S_objectObject == <<"[", "o", "b", "j", "e", "c", "t", " ", "O", "b", "j", "e", "c", "t", "]">>
S_ContentType == <<"C", "o", "n", "t", "e", "n", "t", "-", "T", "y", "p", "e">>
S_applicationJson == <<"a", "p", "p", "l", "i", "c", "a", "t", "i", "o", "n", "/", "j", "s", "o", "n">>
S_patternMatched == <<"p", "a", "t", "t", "e", "r", "n", "-", "m", "a", "t", "c", "h", "e", "d">>
S_ListenerExecutionFailed == <<"L", "i", "s", "t", "e", "n", "e", "r", " ", "e", "x", "e", "c", "u", "t", "i", "o", "n", " ", "f", "a", "i", "l", "e", "d">>
S_InternalServerError == <<"I", "n", "t", "e", "r", "n", "a", "l", " ", "s", "e", "r", "v", "e", "r", " ", "e", "r", "r", "o", "r">>

Digits == <<"0", "1", "2", "3", "4", "5", "6", "7", "8", "9">>

(***************************************************************************)
(* JavaScript values.                                                      *)
(***************************************************************************)
Undef == [t |-> "undef"]
Null == [t |-> "null"]
Str(s) == [t |-> "str", s |-> s]
Num(n) == [t |-> "num", n |-> n]
Bool(b) == [t |-> "bool", b |-> b]
Obj(kv) == [t |-> "obj", kv |-> kv]
Arr(e) == [t |-> "arr", e |-> e]
\* a class (constructor function), by its name
Fn(name) == [t |-> "fn", name |-> name]
\* a function inherited from Object.prototype, by its property key
Builtin(key) == [t |-> "fn", builtin |-> key]
BigIntV(n) == [t |-> "bigint", n |-> n]
KV(k, v) == [k |-> k, v |-> v]

\* x == null (loose): null or undefined
IsNullish(v) == v.t \in {"undef", "null"}

\* ToBoolean
Truthy(v) ==
    CASE v.t = "undef" -> FALSE
      [] v.t = "null" -> FALSE
      [] v.t = "str" -> Len(v.s) > 0
      [] v.t = "num" -> v.n # 0
      [] v.t = "bool" -> v.b
      [] OTHER -> TRUE

\* a || b
OrElse(a, b) == IF Truthy(a) THEN a ELSE b

\* Properties every object inherits from Object.prototype (a sample of them).
ObjectProtoKeys == {S_constructor, S_toString}

IsDigit(c) == \E i \in 1..10 : Digits[i] = c

DigitVal(c) == (CHOOSE i \in 1..10 : Digits[i] = c) - 1

\* /^\d+$/.test(part)
AllDigits(s) == Len(s) > 0 /\ \A i \in 1..Len(s) : IsDigit(s[i])

RECURSIVE ParseInt(_)
\* parseInt(part, 10) of a string of digits
ParseInt(s) ==
    IF Len(s) = 0 THEN 0
    ELSE 10 * ParseInt(SubSeq(s, 1, Len(s) - 1)) + DigitVal(s[Len(s)])

RECURSIVE NatToString(_)
NatToString(n) ==
    IF n < 10 THEN <<Digits[n + 1]>>
    ELSE NatToString(n \div 10) \o <<Digits[(n % 10) + 1]>>

\* String(n) of an integer
IntToString(n) == IF n < 0 THEN <<"-">> \o NatToString(0 - n) ELSE NatToString(n)

\* own keys of an object, in order (Object.keys)
ObjectKeys(o) == [i \in 1..Len(o.kv) |-> o.kv[i].k]

HasOwn(o, key) == \E i \in 1..Len(o.kv) : o.kv[i].k = key

GetOwn(o, key) == o.kv[CHOOSE i \in 1..Len(o.kv) : o.kv[i].k = key].v

\* o[key] = v on a plain object: overwrite in place or append
SetOwn(o, key, v) ==
    IF HasOwn(o, key)
    THEN Obj([i \in 1..Len(o.kv) |-> IF o.kv[i].k = key THEN KV(key, v) ELSE o.kv[i]])
    ELSE Obj(Append(o.kv, KV(key, v)))

\* is key the canonical form of an index of the array a
IsIndexOf(a, key) ==
    AllDigits(key) /\ IntToString(ParseInt(key)) = key /\ ParseInt(key) < Len(a.e)

\* typeof v === 'object' (null included)
TypeofObject(v) == v.t \in {"obj", "arr", "null", "resp", "err"}

\* key in v, for a value v with typeof v === 'object' and v # null
HasProperty(v, key) ==
    CASE v.t = "obj" -> HasOwn(v, key) \/ key \in ObjectProtoKeys
      [] v.t = "arr" -> IsIndexOf(v, key) \/ key = S_length \/ key \in ObjectProtoKeys
      [] OTHER -> key \in ObjectProtoKeys

\* v[key]: own property, else the inherited one, else undefined
GetProperty(v, key) ==
    CASE v.t = "obj" /\ HasOwn(v, key) -> GetOwn(v, key)
      [] v.t = "arr" /\ IsIndexOf(v, key) -> v.e[ParseInt(key) + 1]
      [] v.t = "arr" /\ key = S_length -> Num(Len(v.e))
      [] v.t \in {"obj", "arr", "fn", "str", "num", "bool", "bigint"} /\ key \in ObjectProtoKeys -> Builtin(key)
      [] OTHER -> Undef

(***************************************************************************)
(* Path Extractor and Pattern Matcher (core/utils/pattern-matcher.ts).     *)
(***************************************************************************)
RECURSIVE DigitRunEnd(_, _)
\* the first position at or after i that holds no digit (Len(s) + 1 if none)
DigitRunEnd(s, i) ==
    IF i > Len(s) \/ ~IsDigit(s[i]) THEN i ELSE DigitRunEnd(s, i + 1)

RECURSIVE ReplaceBrackets(_, _)
\* path.replace(/\[(\d+)\]/g, '.$1'), scanning from position i
ReplaceBrackets(s, i) ==
    IF i > Len(s) THEN <<>>
    ELSE LET j == DigitRunEnd(s, i + 1)
         IN  IF s[i] = "[" /\ j > i + 1 /\ j <= Len(s) /\ s[j] = "]"
             THEN <<".">> \o SubSeq(s, i + 1, j - 1) \o ReplaceBrackets(s, j + 1)
             ELSE <<s[i]>> \o ReplaceBrackets(s, i + 1)

RECURSIVE SplitOn(_, _, _, _)
\* s.split(c) for a one-character separator c, scanning from position i with the
\* current piece cur
SplitOn(s, c, i, cur) ==
    IF i > Len(s) THEN <<cur>>
    ELSE IF s[i] = c THEN <<cur>> \o SplitOn(s, c, i + 1, <<>>)
    ELSE SplitOn(s, c, i + 1, Append(cur, s[i]))

\* the parts of a path: brackets to dots, split, empty parts dropped
PathParts(path) ==
    SelectSeq(SplitOn(ReplaceBrackets(path, 1), ".", 1, <<>>), LAMBDA p : p # <<>>)

RECURSIVE WalkParts(_, _, _)
RECURSIVE WalkThrows(_, _, _)
\* the loop of extractValue over parts[i..]
WalkParts(current, parts, i) ==
    IF i > Len(parts) THEN current
    ELSE IF IsNullish(current) THEN Undef
    ELSE LET part == parts[i]
         IN  IF AllDigits(part) /\ current.t = "arr" /\ ParseInt(part) < Len(current.e)
             THEN WalkParts(current.e[ParseInt(part) + 1], parts, i + 1)
             ELSE IF TypeofObject(current) /\ HasProperty(current, part)
                  THEN WalkParts(GetProperty(current, part), parts, i + 1)
                  ELSE Undef

extractValue(obj, path) ==
    IF IsNullish(obj) \/ path = <<>> THEN Undef
    ELSE WalkParts(obj, PathParts(path), 1)

\* `part in current` is a TypeError when current is a primitive, null or undefined
InThrows(current) == current.t \notin {"obj", "arr", "resp", "err", "fn"}

\* the loop of extractValue throws: it reaches `part in current` only behind
\* `current == null` (line 31) and `typeof current === 'object'` (line 44)
WalkThrows(current, parts, i) ==
    IF i > Len(parts) THEN FALSE
    ELSE IF IsNullish(current) THEN FALSE
    ELSE LET part == parts[i]
         IN  IF AllDigits(part) /\ current.t = "arr" /\ ParseInt(part) < Len(current.e)
             THEN WalkThrows(current.e[ParseInt(part) + 1], parts, i + 1)
             ELSE IF TypeofObject(current)
                  THEN IF InThrows(current) THEN TRUE
                       ELSE IF HasProperty(current, part)
                            THEN WalkThrows(GetProperty(current, part), parts, i + 1)
                            ELSE FALSE
                  ELSE FALSE

\* extractValue(obj, path) throws
extractValueThrows(obj, path) ==
    IF IsNullish(obj) \/ path = <<>> THEN FALSE
    ELSE WalkThrows(obj, PathParts(path), 1)

RECURSIVE JoinValues(_, _)
RECURSIVE ToStr(_)
\* String(value)
ToStr(v) ==
    CASE v.t = "str" -> v.s
      [] v.t = "num" -> IntToString(v.n)
      [] v.t = "bigint" -> IntToString(v.n)
      [] v.t = "bool" -> IF v.b THEN S_true ELSE S_false
      [] v.t = "arr" -> JoinValues(v.e, 1)
      [] v.t = "null" -> S_null
      [] v.t = "undef" -> <<"u", "n", "d", "e", "f", "i", "n", "e", "d">>
      [] v.t = "fn" -> <<"f", "u", "n", "c", "t", "i", "o", "n">>
      [] OTHER -> S_objectObject

\* Array.prototype.join(','): null and undefined elements give the empty string
JoinValues(e, i) ==
    IF i > Len(e) THEN <<>>
    ELSE (IF IsNullish(e[i]) THEN <<>> ELSE ToStr(e[i]))
         \o (IF i < Len(e) THEN <<",">> ELSE <<>>)
         \o JoinValues(e, i + 1)

\* valueStr.startsWith(prefix)
StartsWith(s, prefix) ==
    Len(prefix) <= Len(s) /\ SubSeq(s, 1, Len(prefix)) = prefix

\* pattern.endsWith('*')
EndsWithStar(p) == Len(p) > 0 /\ p[Len(p)] = "*"

\* faulty variant: no wildcard suffix, a trailing '*' is compared literally
matchOneExactOnly(value, p) ==
    IF p = <<"*">> THEN TRUE
    ELSE ToStr(value) = p

\* matchPattern for a single string pattern (value already known non-null)
matchOne(value, p) ==
    IF p = <<"*">> THEN TRUE
    ELSE IF EndsWithStar(p) THEN StartsWith(ToStr(value), SubSeq(p, 1, Len(p) - 1))
    ELSE ToStr(value) = p

\* A pattern is [alts |-> <<p1, ...>>] for an array (OR) and [one |-> p] for a string.
IsArrayPattern(pattern) == "alts" \in DOMAIN pattern

matchPattern(value, pattern) ==
    IF IsNullish(value) THEN FALSE
    ELSE IF IsArrayPattern(pattern)
         THEN \E i \in 1..Len(pattern.alts) : matchOne(value, pattern.alts[i])
         ELSE matchOne(value, pattern.one)

\* faulty variant: a configuration without entries matches every event
matchesPatternsEmptyMatchesAll(event, config) ==
    IF ~config.hasMatch THEN TRUE
    ELSE \A i \in 1..Len(config.match) :
            matchPattern(extractValue(event, config.match[i].k), config.match[i].v)

\* A listener match configuration is [hasMatch |-> b, match |-> m]: b is FALSE when
\* config.match is absent or not an object, and m is the sequence of the (path,
\* pattern) entries of config.match (Object.entries).
matchesPatterns(event, config) ==
    IF ~config.hasMatch THEN FALSE
    ELSE IF Len(config.match) = 0 THEN FALSE
    ELSE \A i \in 1..Len(config.match) :
            matchPattern(extractValue(event, config.match[i].k), config.match[i].v)

(***************************************************************************)
(* JSON.stringify.  The result is [kind |-> "text", s |-> chars], or       *)
(* [kind |-> "undefined"] (a function or undefined at the top), or         *)
(* [kind |-> "throws"] (a BigInt anywhere in the value: TypeError).        *)
(***************************************************************************)
RECURSIVE EscapeChars(_, _)
EscapeChars(s, i) ==
    IF i > Len(s) THEN <<>>
    ELSE (IF s[i] \in {"\"", "\\"} THEN <<"\\", s[i]>> ELSE <<s[i]>>) \o EscapeChars(s, i + 1)

Quote(s) == <<"\"">> \o EscapeChars(s, 1) \o <<"\"">>

RECURSIVE HasBigInt(_)
HasBigInt(v) ==
    CASE v.t = "bigint" -> TRUE
      [] v.t = "arr" -> \E i \in 1..Len(v.e) : HasBigInt(v.e[i])
      [] v.t = "obj" -> \E i \in 1..Len(v.kv) : HasBigInt(v.kv[i].v)
      [] OTHER -> FALSE

\* values JSON.stringify leaves out of an object and turns to null in an array
IsOmitted(v) == v.t \in {"undef", "fn"}

RECURSIVE SerializeMembers(_, _, _)
RECURSIVE SerializeElements(_, _)
RECURSIVE Serialize(_)
\* the JSON text of a value that holds no BigInt and is not omitted
Serialize(v) ==
    CASE v.t = "str" -> Quote(v.s)
      [] v.t = "num" -> IntToString(v.n)
      [] v.t = "bool" -> IF v.b THEN S_true ELSE S_false
      [] v.t = "null" -> S_null
      [] v.t = "arr" -> <<"[">> \o SerializeElements(v.e, 1) \o <<"]">>
      [] v.t = "obj" -> <<"{">> \o SerializeMembers(v.kv, 1, TRUE) \o <<"}">>
      [] OTHER -> <<"{", "}">>

SerializeElements(e, i) ==
    IF i > Len(e) THEN <<>>
    ELSE (IF IsOmitted(e[i]) THEN S_null ELSE Serialize(e[i]))
         \o (IF i < Len(e) THEN <<",">> ELSE <<>>)
         \o SerializeElements(e, i + 1)

SerializeMembers(kv, i, first) ==
    IF i > Len(kv) THEN <<>>
    ELSE IF IsOmitted(kv[i].v) THEN SerializeMembers(kv, i + 1, first)
    ELSE (IF first THEN <<>> ELSE <<",">>)
         \o Quote(kv[i].k) \o <<":">> \o Serialize(kv[i].v)
         \o SerializeMembers(kv, i + 1, FALSE)

JSONstringify(v) ==
    IF HasBigInt(v) THEN [kind |-> "throws", s |-> <<>>]
    ELSE IF IsOmitted(v) THEN [kind |-> "undefined", s |-> <<>>]
    ELSE [kind |-> "text", s |-> Serialize(v)]

(***************************************************************************)
(* Thrown values and property reads.                                       *)
(***************************************************************************)
S_success == <<"s", "u", "c", "c", "e", "s", "s">>
S_matchType == <<"m", "a", "t", "c", "h", "T", "y", "p", "e">>
S_body == <<"b", "o", "d", "y">>
S_statusCode == <<"s", "t", "a", "t", "u", "s", "C", "o", "d", "e">>
S_eventName == <<"e", "v", "e", "n", "t", "N", "a", "m", "e">>
S_pattern == <<"p", "a", "t", "t", "e", "r", "n">>
S_isBase64Encoded == <<"i", "s", "B", "a", "s", "e", "6", "4", "E", "n", "c", "o", "d", "e", "d">>

\* An Error instance with its message and (for FusionException: numeric) code.
ErrorV(message, code) == [t |-> "err", message |-> message, code |-> code]

\* new Error(msg)
NewError(msg) == ErrorV(Str(msg), Undef)

\* v.key for a value v that is neither null nor undefined
Prop(v, key) ==
    CASE v.t = "err" /\ key = S_message -> v.message
      [] v.t = "err" /\ key = S_code -> v.code
      [] OTHER -> GetProperty(v, key)

\* v?.key
OptProp(v, key) == IF IsNullish(v) THEN Undef ELSE Prop(v, key)

\* The TypeError a property read of null or undefined throws.
NullReadError == NewError(<<"C", "a", "n", "n", "o", "t", " ", "r", "e", "a", "d", " ", "p", "r", "o", "p", "e", "r", "t", "i", "e", "s", " ", "o", "f", " ", "n", "u", "l", "l">>)

\* the TypeError of reading a member of the caught value err, which is null or undefined
ReadError(err) ==
    IF err.t = "null" THEN NullReadError
    ELSE NewError(<<"C", "a", "n", "n", "o", "t", " ", "r", "e", "a", "d", " ", "p", "r", "o", "p", "e", "r", "t", "i", "e", "s", " ", "o", "f", " ", "u", "n", "d", "e", "f", "i", "n", "e", "d">>)

(***************************************************************************)
(* FusionResponse (core/classes/fusion-response.ts).                       *)
(***************************************************************************)
\* new FusionResponse(body).status(code) with the headers set so far
FusionResponse(statusCode, headers, body, isBase64Encoded) ==
    [t |-> "resp", statusCode |-> statusCode, headers |-> headers, body |-> body,
     isBase64Encoded |-> isBase64Encoded]

\* toObject()
toObject(r) == r.body

\* does toResponse() take the JSON.stringify branch
toResponseStringifies(r) == ~IsNullish(r.body) /\ r.body.t # "str"

\* does toResponse() throw (JSON.stringify of the body throws)
toResponseThrows(r) == toResponseStringifies(r) /\ JSONstringify(r.body).kind = "throws"

\* this._headers after toResponse(): Content-Type is defaulted on the object itself
toResponseHeaders(r) ==
    IF toResponseStringifies(r) /\ ~Truthy(GetProperty(r.headers, S_ContentType))
    THEN SetOwn(r.headers, S_ContentType, Str(S_applicationJson))
    ELSE r.headers

\* faulty variant: a string body is serialized like any other body
toResponseBodyQuotesStrings(r) ==
    IF IsNullish(r.body) THEN Str(<<>>)
    ELSE IF JSONstringify(r.body).kind = "text" THEN Str(JSONstringify(r.body).s)
    ELSE Undef

\* the body toResponse() returns
toResponseBody(r) ==
    IF IsNullish(r.body) THEN Str(<<>>)
    ELSE IF r.body.t = "str" THEN r.body
    ELSE IF JSONstringify(r.body).kind = "text" THEN Str(JSONstringify(r.body).s)
    ELSE Undef

\* the value toResponse() returns (when it does not throw)
toResponse(r) ==
    Obj(<<KV(S_statusCode, Num(r.statusCode)),
          KV(S_headers, toResponseHeaders(r)),
          KV(S_body, toResponseBody(r))>>
        \o (IF r.isBase64Encoded THEN <<KV(S_isBase64Encoded, Bool(TRUE))>> ELSE <<>>))

\* the response object after toResponse() ran on it (a throwing JSON.stringify
\* leaves before the Content-Type assignment)
toResponseAfter(r) ==
    IF toResponseThrows(r) THEN r ELSE [r EXCEPT !.headers = toResponseHeaders(r)]

(***************************************************************************)
(* CORS headers (FusionServer.applyCorsHeaders).                           *)
(* A configuration is a record: defined (params.cors was given), enabled,  *)
(* hasAllowOrigins and allowOrigins, allowMethods, allowHeaders,           *)
(* exposeHeaders (absent lists are empty), credentials, hasMaxAge, maxAge. *)
(***************************************************************************)
S_AllowOrigin == <<"A", "c", "c", "e", "s", "s", "-", "C", "o", "n", "t", "r", "o", "l", "-", "A", "l", "l", "o", "w", "-", "O", "r", "i", "g", "i", "n">>
S_AllowMethods == <<"A", "c", "c", "e", "s", "s", "-", "C", "o", "n", "t", "r", "o", "l", "-", "A", "l", "l", "o", "w", "-", "M", "e", "t", "h", "o", "d", "s">>
S_AllowHeaders == <<"A", "c", "c", "e", "s", "s", "-", "C", "o", "n", "t", "r", "o", "l", "-", "A", "l", "l", "o", "w", "-", "H", "e", "a", "d", "e", "r", "s">>
S_ExposeHeaders == <<"A", "c", "c", "e", "s", "s", "-", "C", "o", "n", "t", "r", "o", "l", "-", "E", "x", "p", "o", "s", "e", "-", "H", "e", "a", "d", "e", "r", "s">>
S_AllowCredentials == <<"A", "c", "c", "e", "s", "s", "-", "C", "o", "n", "t", "r", "o", "l", "-", "A", "l", "l", "o", "w", "-", "C", "r", "e", "d", "e", "n", "t", "i", "a", "l", "s">>
S_MaxAge == <<"A", "c", "c", "e", "s", "s", "-", "C", "o", "n", "t", "r", "o", "l", "-", "M", "a", "x", "-", "A", "g", "e">>

RECURSIVE JoinStrings(_, _, _)
\* list.join(sep), from position i
JoinStrings(list, sep, i) ==
    IF i > Len(list) THEN <<>>
    ELSE list[i] \o (IF i < Len(list) THEN sep ELSE <<>>) \o JoinStrings(list, sep, i + 1)

\* list.includes(v) for a list of strings
Includes(list, v) == v.t = "str" /\ \E i \in 1..Len(list) : list[i] = v.s

\* faulty variant: a listed '*' is preferred to the caller's listed origin
corsOriginStarFirst(headers, origin, config) ==
    IF ~config.hasAllowOrigins THEN headers
    ELSE IF Includes(config.allowOrigins, Str(<<"*">>))
         THEN SetOwn(headers, S_AllowOrigin, Str(<<"*">>))
    ELSE IF Truthy(origin) /\ Includes(config.allowOrigins, origin)
         THEN SetOwn(headers, S_AllowOrigin, origin)
    ELSE IF Len(config.allowOrigins) > 0
         THEN SetOwn(headers, S_AllowOrigin, Str(config.allowOrigins[1]))
    ELSE headers

\* the Access-Control-Allow-Origin step
corsOrigin(headers, origin, config) ==
    IF ~config.hasAllowOrigins THEN headers
    ELSE IF Truthy(origin) /\ Includes(config.allowOrigins, origin)
         THEN SetOwn(headers, S_AllowOrigin, origin)
    ELSE IF Includes(config.allowOrigins, Str(<<"*">>))
         THEN SetOwn(headers, S_AllowOrigin, Str(<<"*">>))
    ELSE IF Len(config.allowOrigins) > 0
         THEN SetOwn(headers, S_AllowOrigin, Str(config.allowOrigins[1]))
    ELSE headers

\* headers[name] = list.join(', ') when the list is given and not empty
corsList(headers, name, list) ==
    IF Len(list) > 0 THEN SetOwn(headers, name, Str(JoinStrings(list, <<",", " ">>, 1)))
    ELSE headers

corsCredentials(headers, config) ==
    IF config.credentials THEN SetOwn(headers, S_AllowCredentials, Str(S_true)) ELSE headers

corsMaxAge(headers, config) ==
    IF config.hasMaxAge THEN SetOwn(headers, S_MaxAge, Str(IntToString(config.maxAge)))
    ELSE headers

\* the headers object after applyCorsHeaders(headers, origin)
applyCorsHeaders(headers, origin, config) ==
    IF ~(config.defined /\ config.enabled) THEN headers
    ELSE corsMaxAge(
           corsCredentials(
             corsList(
               corsList(
                 corsList(corsOrigin(headers, origin, config),
                          S_AllowMethods, config.allowMethods),
                 S_AllowHeaders, config.allowHeaders),
               S_ExposeHeaders, config.exposeHeaders),
             config),
           config)

(***************************************************************************)
(* Listener dispatch (FusionServer.handleListener).                        *)
(* The listener tables are [eventName |-> an object from event name to     *)
(* class, patterns |-> the sequence of [handler, config] records].         *)
(* What the resolver and the resolved handler do is the outcome            *)
(* [kind, value]: kind is "resolveThrows" (value thrown by                 *)
(* container.resolve), "resolveFalsy", "noMethod", "returns" (the method   *)
(* returned value) or "throws" (the method threw or rejected with value).  *)
(* A completion is [thrown |-> BOOLEAN, value |-> the value returned or    *)
(* thrown].                                                                *)
(***************************************************************************)
Return(v) == [thrown |-> FALSE, value |-> v]

Throw(v) == [thrown |-> TRUE, value |-> v]

RECURSIVE ScanPatterns(_, _, _)
\* for (const pattern of this.listeners.patterns): the index of the first entry,
\* from i on, whose configuration matches; 0 when none does
ScanPatterns(evt, patterns, i) ==
    IF i > Len(patterns) THEN 0
    ELSE IF matchesPatterns(evt, patterns[i].config) THEN i
    ELSE ScanPatterns(evt, patterns, i + 1)

\* evt.event && evt.event in this.listeners.eventName
eventNameHit(evt, listeners) ==
    /\ Truthy(Prop(evt, S_event))
    /\ HasProperty(listeners.eventName, ToStr(Prop(evt, S_event)))

\* faulty variant: the pattern scan tried before the event-name table
selectListenerPatternFirst(evt, listeners) ==
    LET i == ScanPatterns(evt, listeners.patterns, 1)
    IN  IF i # 0
        THEN [listenerClass |-> listeners.patterns[i].handler,
              matchType |-> S_pattern, index |-> i]
        ELSE IF eventNameHit(evt, listeners)
        THEN [listenerClass |-> GetProperty(listeners.eventName, ToStr(Prop(evt, S_event))),
              matchType |-> S_eventName, index |-> 0]
        ELSE [listenerClass |-> Undef, matchType |-> S_eventName, index |-> 0]

\* listenerClass and matchType after the two lookups (lines 205-222)
selectListener(evt, listeners) ==
    IF eventNameHit(evt, listeners)
    THEN [listenerClass |-> GetProperty(listeners.eventName, ToStr(Prop(evt, S_event))),
          matchType |-> S_eventName, index |-> 0]
    ELSE LET i == ScanPatterns(evt, listeners.patterns, 1)
         IN  IF i = 0
             THEN [listenerClass |-> Undef, matchType |-> S_eventName, index |-> 0]
             ELSE [listenerClass |-> listeners.patterns[i].handler,
                   matchType |-> S_pattern, index |-> i]

\* faulty variant: every key is listed and the ellipsis follows a full ten
noListenerMessageUntruncated(evt) ==
    IF Truthy(Prop(evt, S_event))
    THEN <<"U", "n", "r", "e", "g", "i", "s", "t", "e", "r", "e", "d", " ", "l", "i", "s", "t", "e", "n", "e", "r", " ", "f", "o", "r", " ", "e", "v", "e", "n", "t", ":", " ">> \o ToStr(Prop(evt, S_event))
    ELSE <<"N", "o", " ", "p", "a", "t", "t", "e", "r", "n", "-", "m", "a", "t", "c", "h", "e", "d", " ", "l", "i", "s", "t", "e", "n", "e", "r", " ", "f", "o", "u", "n", "d", " ", "f", "o", "r", " ", "e", "v", "e", "n", "t", " ", "s", "t", "r", "u", "c", "t", "u", "r", "e", ".", " ", "E", "v", "e", "n", "t", " ", "k", "e", "y", "s", ":", " ">>
         \o JoinStrings(ObjectKeys(evt), <<",", " ">>, 1)
         \o (IF Len(evt.kv) >= 10 THEN <<".", ".", ".">> ELSE <<>>)

\* the message of the error thrown when no listener was selected
noListenerMessage(evt) ==
    IF Truthy(Prop(evt, S_event))
    THEN <<"U", "n", "r", "e", "g", "i", "s", "t", "e", "r", "e", "d", " ", "l", "i", "s", "t", "e", "n", "e", "r", " ", "f", "o", "r", " ", "e", "v", "e", "n", "t", ":", " ">> \o ToStr(Prop(evt, S_event))
    ELSE <<"N", "o", " ", "p", "a", "t", "t", "e", "r", "n", "-", "m", "a", "t", "c", "h", "e", "d", " ", "l", "i", "s", "t", "e", "n", "e", "r", " ", "f", "o", "u", "n", "d", " ", "f", "o", "r", " ", "e", "v", "e", "n", "t", " ", "s", "t", "r", "u", "c", "t", "u", "r", "e", ".", " ", "E", "v", "e", "n", "t", " ", "k", "e", "y", "s", ":", " ">>
         \o JoinStrings(SubSeq(ObjectKeys(evt), 1, IF Len(evt.kv) > 10 THEN 10 ELSE Len(evt.kv)),
                        <<",", " ">>, 1)
         \o (IF Len(evt.kv) > 10 THEN <<".", ".", ".">> ELSE <<>>)

\* { success: true, matchType, body: result }
ListenerWrapper(matchType, result) ==
    Obj(<<KV(S_success, Bool(TRUE)), KV(S_matchType, Str(matchType)), KV(S_body, result)>>)

\* { success: false, body: { message, event } }
FailureEnvelope(message, event) ==
    Obj(<<KV(S_success, Bool(FALSE)),
          KV(S_body, Obj(<<KV(S_message, message), KV(S_event, event)>>))>>)

\* faulty variant: only a non-200 status selects the HTTP form
listenerResponseStatusOnly(result) ==
    IF result.statusCode # 200
    THEN IF toResponseThrows(result)
         THEN Throw(NewError(<<"D", "o", " ", "n", "o", "t", " ", "k", "n", "o", "w", " ", "h", "o", "w", " ", "t", "o", " ", "s", "e", "r", "i", "a", "l", "i", "z", "e", " ", "a", " ", "B", "i", "g", "I", "n", "t">>))
         ELSE Return(toResponse(result))
    ELSE Return(toObject(result))

\* the FusionResponse branch of handleListener (lines 251-263)
listenerResponse(result) ==
    IF Len(result.headers.kv) > 0 \/ result.statusCode # 200
    THEN IF toResponseThrows(result)
         THEN Throw(NewError(<<"D", "o", " ", "n", "o", "t", " ", "k", "n", "o", "w", " ", "h", "o", "w", " ", "t", "o", " ", "s", "e", "r", "i", "a", "l", "i", "z", "e", " ", "a", " ", "B", "i", "g", "I", "n", "t">>))
         ELSE Return(toResponse(result))
    ELSE Return(toObject(result))

\* faulty variant: the wrapper keeps the initial matchType
listenerNormalizeInitialType(result, matchType) ==
    IF result.t = "resp" THEN listenerResponse(result)
    ELSE Return(ListenerWrapper(S_eventName, result))

\* what the handler's result becomes (lines 250-270)
listenerNormalize(result, matchType) ==
    IF result.t = "resp" THEN listenerResponse(result)
    ELSE Return(ListenerWrapper(matchType, result))

\* the try block of handleListener
listenerTry(evt, listeners, outcome) ==
    LET sel == selectListener(evt, listeners)
    IN  IF ~Truthy(sel.listenerClass) THEN Throw(NewError(noListenerMessage(evt)))
        ELSE CASE outcome.kind = "resolveThrows" -> Throw(outcome.value)
               [] outcome.kind = "resolveFalsy" ->
                    Throw(NewError(<<"F", "a", "i", "l", "e", "d", " ", "t", "o", " ", "r", "e", "s", "o", "l", "v", "e", " ", "l", "i", "s", "t", "e", "n", "e", "r", " ", "i", "n", "s", "t", "a", "n", "c", "e">>))
               [] outcome.kind = "noMethod" ->
                    Throw(NewError(<<"L", "i", "s", "t", "e", "n", "e", "r", " ", "d", "o", "e", "s", " ", "n", "o", "t", " ", "i", "m", "p", "l", "e", "m", "e", "n", "t", " ", "h", "a", "n", "d", "l", "e", "(", ")", " ", "m", "e", "t", "h", "o", "d">>))
               [] outcome.kind = "throws" -> Throw(outcome.value)
               [] OTHER -> listenerNormalize(outcome.value, sel.matchType)

\* the catch block of handleListener: reading error.message of null or undefined
\* throws out of the catch block
listenerCatch(evt, err) ==
    IF IsNullish(err) THEN Throw(ReadError(err))
    ELSE Return(FailureEnvelope(
                  OrElse(Prop(err, S_message), Str(S_ListenerExecutionFailed)),
                  OrElse(Prop(evt, S_event), Str(S_patternMatched))))

handleListener(evt, listeners, outcome) ==
    LET c == listenerTry(evt, listeners, outcome)
    IN  IF c.thrown THEN listenerCatch(evt, c.value) ELSE c

\* the calls of handle() this dispatch made (none or one), as [target, method]
listenerInvoked(evt, listeners, outcome) ==
    LET sel == selectListener(evt, listeners)
    IN  IF Truthy(sel.listenerClass) /\ outcome.kind \in {"returns", "throws"}
        THEN <<[target |-> sel.listenerClass, method |-> <<"h", "a", "n", "d", "l", "e">>]>>
        ELSE <<>>

(***************************************************************************)
(* HTTP dispatch (FusionServer.handleController).                          *)
(* self is the instance: [controllers, listeners, routes, corsConfig],     *)
(* routes being [GET, POST, PUT, DELETE, PATCH |-> an object from          *)
(* resource path to 'basePath|method'].                                    *)
(***************************************************************************)
S_GET == <<"G", "E", "T">>
S_POST == <<"P", "O", "S", "T">>
S_PUT == <<"P", "U", "T">>
S_DELETE == <<"D", "E", "L", "E", "T", "E">>
S_PATCH == <<"P", "A", "T", "C", "H">>
S_controllers == <<"c", "o", "n", "t", "r", "o", "l", "l", "e", "r", "s">>

\* (this as any)[name]: a route table, the controller map, an inherited member,
\* or undefined
instanceMember(self, name) ==
    CASE name = S_GET -> self.routes.GET
      [] name = S_POST -> self.routes.POST
      [] name = S_PUT -> self.routes.PUT
      [] name = S_DELETE -> self.routes.DELETE
      [] name = S_PATCH -> self.routes.PATCH
      [] name = S_controllers -> self.controllers
      [] name \in ObjectProtoKeys -> Builtin(name)
      [] OTHER -> Undef

\* (this as any)[event.httpMethod]?.[event.resource]
routeLookup(self, event) ==
    OptProp(instanceMember(self, ToStr(Prop(event, S_httpMethod))),
            ToStr(Prop(event, S_resource)))

\* `${event.httpMethod} ${event.resource}`
routeKey(event) ==
    ToStr(Prop(event, S_httpMethod)) \o <<" ">> \o ToStr(Prop(event, S_resource))

\* event.headers?.origin || event.headers?.Origin
requestOrigin(event) ==
    OrElse(OptProp(Prop(event, S_headers), S_origin), OptProp(Prop(event, S_headers), S_Origin))

\* { statusCode, headers, body }
HttpEnvelope(statusCode, headers, body) ==
    Obj(<<KV(S_statusCode, statusCode), KV(S_headers, headers), KV(S_body, body)>>)

\* the value of a JSON.stringify call that did not throw
stringifyValue(v) ==
    IF JSONstringify(v).kind = "text" THEN Str(JSONstringify(v).s) ELSE Undef

\* faulty variant: an Access-Control-Allow-Origin set by the response object is kept
controllerResponseOwnHeadersWin(self, event, result) ==
    IF toResponseThrows(result)
    THEN Throw(NewError(<<"D", "o", " ", "n", "o", "t", " ", "k", "n", "o", "w", " ", "h", "o", "w", " ", "t", "o", " ", "s", "e", "r", "i", "a", "l", "i", "z", "e", " ", "a", " ", "B", "i", "g", "I", "n", "t">>))
    ELSE Return(SetOwn(toResponse(result), S_headers,
                       IF HasOwn(toResponseHeaders(result), S_AllowOrigin)
                       THEN SetOwn(applyCorsHeaders(toResponseHeaders(result),
                                                    requestOrigin(event), self.corsConfig),
                                   S_AllowOrigin,
                                   GetOwn(toResponseHeaders(result), S_AllowOrigin))
                       ELSE applyCorsHeaders(toResponseHeaders(result),
                                             requestOrigin(event), self.corsConfig)))

\* the FusionResponse branch (lines 380-384): toResponse(), then CORS on its headers
controllerResponse(self, event, result) ==
    IF toResponseThrows(result)
    THEN Throw(NewError(<<"D", "o", " ", "n", "o", "t", " ", "k", "n", "o", "w", " ", "h", "o", "w", " ", "t", "o", " ", "s", "e", "r", "i", "a", "l", "i", "z", "e", " ", "a", " ", "B", "i", "g", "I", "n", "t">>))
    ELSE Return(SetOwn(toResponse(result), S_headers,
                       applyCorsHeaders(toResponseHeaders(result), requestOrigin(event),
                                        self.corsConfig)))

\* the empty response (lines 387-395)
controllerEmpty(self, event) ==
    Return(HttpEnvelope(Num(204),
                        applyCorsHeaders(Obj(<<>>), requestOrigin(event), self.corsConfig),
                        Str(<<>>)))

\* the default response (lines 398-406)
controllerDefault(self, event, result) ==
    IF JSONstringify(result).kind = "throws"
    THEN Throw(NewError(<<"D", "o", " ", "n", "o", "t", " ", "k", "n", "o", "w", " ", "h", "o", "w", " ", "t", "o", " ", "s", "e", "r", "i", "a", "l", "i", "z", "e", " ", "a", " ", "B", "i", "g", "I", "n", "t">>))
    ELSE Return(HttpEnvelope(Num(200),
                             applyCorsHeaders(Obj(<<KV(S_ContentType, Str(S_applicationJson))>>),
                                              requestOrigin(event), self.corsConfig),
                             stringifyValue(result)))

\* faulty variant: no empty-response branch
controllerNormalizeNoEmpty(self, event, result) ==
    IF result.t = "resp" THEN controllerResponse(self, event, result)
    ELSE controllerDefault(self, event, result)

\* what the method's result becomes (lines 376-406)
controllerNormalize(self, event, result) ==
    IF result.t = "resp" THEN controllerResponse(self, event, result)
    ELSE IF IsNullish(result) THEN controllerEmpty(self, event)
    ELSE controllerDefault(self, event, result)

\* routeConfig.split('|'), padded so that both destructured names are defined
splitRoute(routeConfig) ==
    LET parts == SplitOn(routeConfig.s, "|", 1, <<>>)
    IN  [controllerPath |-> Str(parts[1]),
         handler |-> IF Len(parts) > 1 THEN Str(parts[2]) ELSE Undef]

\* the steps of the try block after the route was found and split (lines 355-406)
controllerInvoke(self, event, dest, outcome) ==
    IF ~Truthy(Prop(self.controllers, dest.controllerPath.s))
    THEN Throw(NewError(<<"C", "o", "n", "t", "r", "o", "l", "l", "e", "r", " ", "c", "l", "a", "s", "s", " ", "n", "o", "t", " ", "f", "o", "u", "n", "d", " ", "f", "o", "r", " ", "p", "a", "t", "h", ":", " ">> \o dest.controllerPath.s))
    ELSE CASE outcome.kind = "resolveThrows" -> Throw(outcome.value)
           [] outcome.kind = "resolveFalsy" ->
                Throw(NewError(<<"F", "a", "i", "l", "e", "d", " ", "t", "o", " ", "r", "e", "s", "o", "l", "v", "e", " ", "c", "o", "n", "t", "r", "o", "l", "l", "e", "r", " ", "i", "n", "s", "t", "a", "n", "c", "e", " ", "f", "o", "r", ":", " ">>
                               \o dest.controllerPath.s))
           [] outcome.kind = "noMethod" ->
                Throw(NewError(<<"M", "e", "t", "h", "o", "d", " ", "'">> \o dest.handler.s
                               \o <<"'", " ", "n", "o", "t", " ", "f", "o", "u", "n", "d", " ", "i", "n", " ", "c", "o", "n", "t", "r", "o", "l", "l", "e", "r", " ", "'">> \o dest.controllerPath.s
                               \o <<"'", " ", "o", "r", " ", "i", "s", " ", "n", "o", "t", " ", "a", " ", "f", "u", "n", "c", "t", "i", "o", "n">>))
           [] outcome.kind = "throws" -> Throw(outcome.value)
           [] OTHER -> controllerNormalize(self, event, outcome.value)

\* the try block of handleController
controllerTry(self, event, outcome) ==
    LET routeConfig == routeLookup(self, event)
    IN  IF ~Truthy(routeConfig)
        THEN Throw(NewError(<<"U", "n", "r", "e", "g", "i", "s", "t", "e", "r", "e", "d", " ", "c", "o", "n", "t", "r", "o", "l", "l", "e", "r", " ", "f", "o", "r", " ", "r", "o", "u", "t", "e", " ">> \o routeKey(event)))
        ELSE IF routeConfig.t # "str"
        THEN Throw(NewError(<<"r", "o", "u", "t", "e", "C", "o", "n", "f", "i", "g", ".", "s", "p", "l", "i", "t", " ", "i", "s", " ", "n", "o", "t", " ", "a", " ", "f", "u", "n", "c", "t", "i", "o", "n">>))
        ELSE IF ~Truthy(splitRoute(routeConfig).controllerPath)
                \/ ~Truthy(splitRoute(routeConfig).handler)
        THEN Throw(NewError(<<"I", "n", "v", "a", "l", "i", "d", " ", "r", "o", "u", "t", "e", " ", "c", "o", "n", "f", "i", "g", "u", "r", "a", "t", "i", "o", "n", " ", "f", "o", "r", " ">> \o routeKey(event)
                            \o <<":", " ">> \o routeConfig.s))
        ELSE controllerInvoke(self, event, splitRoute(routeConfig), outcome)

\* error.code || 500
errorStatus(err) == OrElse(Prop(err, S_code), Num(500))

\* the catch block of handleController (lines 407-431)
controllerCatch(self, event, err) ==
    IF IsNullish(err) THEN Throw(ReadError(err))
    ELSE Return(HttpEnvelope(
                  errorStatus(err),
                  applyCorsHeaders(Obj(<<KV(S_ContentType, Str(S_applicationJson))>>),
                                   requestOrigin(event), self.corsConfig),
                  stringifyValue(Obj(<<
                      KV(S_message, OrElse(Prop(err, S_message), Str(S_InternalServerError))),
                      KV(S_requestId, OptProp(Prop(event, S_requestContext), S_requestId))>>))))

handleController(self, event, outcome) ==
    LET c == controllerTry(self, event, outcome)
    IN  IF c.thrown THEN controllerCatch(self, event, c.value) ELSE c

\* the calls of a controller method this dispatch made (none or one)
controllerInvoked(self, event, outcome) ==
    LET routeConfig == routeLookup(self, event)
    IN  IF /\ Truthy(routeConfig)
           /\ routeConfig.t = "str"
           /\ Truthy(splitRoute(routeConfig).controllerPath)
           /\ Truthy(splitRoute(routeConfig).handler)
           /\ Truthy(Prop(self.controllers, splitRoute(routeConfig).controllerPath.s))
           /\ outcome.kind \in {"returns", "throws"}
        THEN <<[target |-> Prop(self.controllers, splitRoute(routeConfig).controllerPath.s),
                method |-> splitRoute(routeConfig).handler.s]>>
        ELSE <<>>

(***************************************************************************)
(* The returned handler (createHandler, lines 114-145).                    *)
(***************************************************************************)
\* faulty variant: the registered pattern listeners consulted before the HTTP fields
shouldHandleAsListenerPatternsFirst(self, evt) ==
    IF Truthy(Prop(evt, S_event)) THEN TRUE
    ELSE IF Len(self.listeners.patterns) > 0 THEN TRUE
    ELSE FALSE

\* shouldHandleAsListener(evt) (lines 148-169)
shouldHandleAsListener(self, evt) ==
    IF Truthy(Prop(evt, S_event)) THEN TRUE
    ELSE IF Truthy(Prop(evt, S_httpMethod)) /\ Truthy(Prop(evt, S_resource)) THEN FALSE
    ELSE IF Len(self.listeners.patterns) > 0 THEN TRUE
    ELSE FALSE

RECURSIVE popSegment(_)
\* s.split(':').pop(): what follows the last ':' of s
popSegment(s) ==
    IF \E i \in 1..Len(s) : s[i] = ":"
    THEN popSegment(SubSeq(s, 1 + (CHOOSE i \in 1..Len(s) : s[i] = ":"), Len(s)))
    ELSE s

\* the deployment stages the handler accepts
KnownStages == {<<"d", "e", "v">>, <<"q", "a">>, <<"s", "t", "a", "g", "i", "n", "g">>, <<"p", "r", "o", "d">>}

\* the stage of an invocation: the last segment of the ARN, 'dev' when it is
\* empty or no known stage
stageOf(context) ==
    LET stage == IF popSegment(context.invokedFunctionArn.s) = <<>>
                 THEN <<"d", "e", "v">>
                 ELSE popSegment(context.invokedFunctionArn.s)
    IN  IF stage \in KnownStages THEN Str(stage) ELSE Str(<<"d", "e", "v">>)

\* container.register('stage', { useValue: stage }): later resolutions of
\* 'stage' give the value registered last
register(c, stage) == [c EXCEPT !.stage = stage]

\* container.resolve('stage')
resolveStage(c) == c.stage

\* the outer catch: a fixed 500 with the invocation's request id
outerCatch(context) ==
    HttpEnvelope(Num(500),
                 Obj(<<KV(S_ContentType, Str(S_applicationJson))>>),
                 stringifyValue(Obj(<<KV(S_message, Str(S_InternalServerError)),
                                      KV(S_requestId, context.awsRequestId)>>)))

\* faulty variant: the outer catch answers with the message of the caught error
returnedHandlerExposing(self, evt, context, outcome) ==
    LET c == IF shouldHandleAsListener(self, evt)
             THEN handleListener(evt, self.listeners, outcome)
             ELSE handleController(self, evt, outcome)
    IN  IF c.thrown
        THEN HttpEnvelope(Num(500),
                          Obj(<<KV(S_ContentType, Str(S_applicationJson))>>),
                          stringifyValue(Obj(<<KV(S_message, Prop(c.value, S_message)),
                                               KV(S_requestId, context.awsRequestId)>>)))
        ELSE c.value

\* the value the returned handler resolves to
returnedHandler(self, evt, context, outcome) ==
    LET c == IF shouldHandleAsListener(self, evt)
             THEN handleListener(evt, self.listeners, outcome)
             ELSE handleController(self, evt, outcome)
    IN  IF c.thrown THEN outerCatch(context) ELSE c.value

\* which of the two dispatch protocols the returned handler ran
dispatchMode(self, evt) == IF shouldHandleAsListener(self, evt) THEN "listener" ELSE "http"

\* the handler-code calls the invocation made
dispatchInvoked(self, evt, outcome) ==
    IF shouldHandleAsListener(self, evt)
    THEN listenerInvoked(evt, self.listeners, outcome)
    ELSE controllerInvoked(self, evt, outcome)

(***************************************************************************)
(* Decorators: the metadata they attach to a class.                        *)
(***************************************************************************)
\* isPatternMatchConfig(config): an object with a 'match' key.  A declared
\* listener configuration is [isObject, name, hasMatch, match]: the string name
\* when isObject is FALSE, else the object with its match entries.
isPatternMatchConfig(config) == config.isObject

\* the 'fusion:listener' metadata Listener(config) defines
Listener(config) ==
    IF isPatternMatchConfig(config)
    THEN [type |-> "pattern", name |-> <<>>,
          config |-> [hasMatch |-> config.hasMatch, match |-> config.match]]
    ELSE [type |-> "eventName", name |-> config.name,
          config |-> [hasMatch |-> FALSE, match |-> <<>>]]

RECURSIVE methodRoutes(_, _, _)
\* Get(route), Post(route), ... applied to the first n method declarations of a
\* class, in order: the object { [route || '']: propertyKey } of one verb
methodRoutes(methods, verb, n) ==
    IF n = 0 THEN Obj(<<>>)
    ELSE IF methods[n].verb = verb
         THEN SetOwn(methodRoutes(methods, verb, n - 1), methods[n].route,
                     Str(methods[n].propertyKey))
         ELSE methodRoutes(methods, verb, n - 1)

\* Controller(route): one verb's object, re-keyed `${route}${local}` with the
\* value `${route}|${method}`
Controller(route, locals) ==
    Obj([i \in 1..Len(locals.kv) |->
            KV(route \o locals.kv[i].k, Str(route \o <<"|">> \o locals.kv[i].v.s))])

(***************************************************************************)
(* The declared classes.  Reflect.getMetadata reads these.                 *)
(***************************************************************************)
NameConfig(name) == [isObject |-> FALSE, name |-> name, hasMatch |-> FALSE, match |-> <<>>]

MatchConfig(match) == [isObject |-> TRUE, name |-> <<>>, hasMatch |-> TRUE, match |-> match]

One(p) == [one |-> p]

AnyOf(ps) == [alts |-> ps]

\* { match: m } for an m that is no object (undefined, null, a string)
NoMatchConfig == [isObject |-> TRUE, name |-> <<>>, hasMatch |-> FALSE, match |-> <<>>]

ListenerClasses == {"OnX", "OnX2", "PatK", "PatEvt", "PatRec", "PatEmpty", "PatNone", "Plain"}

\* [decorated, config]: the @Listener(config) on the class, if any
listenerDecl(cls) ==
    CASE cls = "OnX" -> [decorated |-> TRUE, config |-> NameConfig(<<"x">>)]
      [] cls = "OnX2" -> [decorated |-> TRUE, config |-> NameConfig(<<"x">>)]
      [] cls = "PatEmpty" -> [decorated |-> TRUE, config |-> MatchConfig(<<>>)]
      [] cls = "PatNone" -> [decorated |-> TRUE, config |-> NoMatchConfig]
      [] cls = "PatK" ->
           [decorated |-> TRUE, config |-> MatchConfig(<<KV(<<"k">>, One(<<"a", "*">>))>>)]
      [] cls = "PatEvt" ->
           [decorated |-> TRUE, config |-> MatchConfig(<<KV(S_event, One(<<"x">>))>>)]
      [] cls = "PatRec" ->
           [decorated |-> TRUE,
            config |-> MatchConfig(<<KV(<<"r", "[", "0", "]", ".", "s">>, One(<<"*">>)),
                                     KV(<<"k">>, AnyOf(<<<<"a", "b">>, <<"c">>>>))>>)]
      [] OTHER -> [decorated |-> FALSE, config |-> NameConfig(<<>>)]

ControllerClasses == {"Items", "Items2", "Root", "Bare"}

\* [decorated, route, methods]: the @Controller(route) on the class, if any, and
\* its @Get/@Post/... methods as [verb, route, propertyKey]
controllerDecl(cls) ==
    CASE cls = "Items" ->
           [decorated |-> TRUE, route |-> <<"/", "a">>,
            methods |-> <<[verb |-> "GET", route |-> <<>>, propertyKey |-> <<"l", "i", "s", "t">>],
                          [verb |-> "GET", route |-> <<"/", ":", "i", "d">>, propertyKey |-> <<"g", "e", "t">>],
                          [verb |-> "POST", route |-> <<>>, propertyKey |-> <<"c", "r", "e", "a", "t", "e">>]>>]
      [] cls = "Items2" ->
           [decorated |-> TRUE, route |-> <<"/", "a">>,
            methods |-> <<[verb |-> "GET", route |-> <<"/", "b">>, propertyKey |-> <<"o", "t", "h", "e", "r">>]>>]
      [] cls = "Root" ->
           [decorated |-> TRUE, route |-> <<>>,
            methods |-> <<[verb |-> "GET", route |-> <<"/", "h">>, propertyKey |-> <<"h", "e", "a", "l", "t", "h">>]>>]
      [] OTHER -> [decorated |-> FALSE, route |-> <<>>, methods |-> <<>>]

\* Reflect.getMetadata('fusion:listener', handler): [defined, metadata]
listenerMetadata(handler) ==
    IF handler.t = "fn" /\ "name" \in DOMAIN handler /\ handler.name \in ListenerClasses
       /\ listenerDecl(handler.name).decorated
    THEN [defined |-> TRUE, metadata |-> Listener(listenerDecl(handler.name).config)]
    ELSE [defined |-> FALSE, metadata |-> Listener(NameConfig(<<>>))]

isDecoratedController(controller) ==
    /\ controller.t = "fn" /\ "name" \in DOMAIN controller
    /\ controller.name \in ControllerClasses
    /\ controllerDecl(controller.name).decorated

\* Reflect.getMetadata('fusion:route', controller): the route, or undefined
routeMetadata(controller) ==
    IF isDecoratedController(controller) THEN Str(controllerDecl(controller.name).route)
    ELSE Undef

\* Reflect.getMetadata('fusion:get' | 'fusion:post' | ..., controller) || {}
verbMetadata(controller, verb) ==
    IF isDecoratedController(controller)
    THEN LET d == controllerDecl(controller.name)
         IN  Controller(d.route, methodRoutes(d.methods, verb, Len(d.methods)))
    ELSE Obj(<<>>)

(***************************************************************************)
(* createHandler (lines 47-112) and validateHandlerParams (lines 171-201). *)
(* params is [controllers, listeners, cors]: controllers and listeners are *)
(* JavaScript values (an array of classes when well formed).               *)
(***************************************************************************)
RECURSIVE lastNonFunction(_, _)
\* faulty variant: the index of the last element that is no function
lastNonFunction(items, i) ==
    IF i > Len(items) THEN -1
    ELSE IF lastNonFunction(items, i + 1) >= 0 THEN lastNonFunction(items, i + 1)
    ELSE IF items[i].t # "fn" THEN i - 1
    ELSE -1

RECURSIVE firstNonFunction(_, _)
\* the zero-based index of the first element, from position i on, that is no
\* function; -1 when all are
firstNonFunction(items, i) ==
    IF i > Len(items) THEN -1
    ELSE IF items[i].t # "fn" THEN i - 1
    ELSE firstNonFunction(items, i + 1)

\* [ok, message]: the Error validateHandlerParams throws, if any
validateHandlerParams(params) ==
    IF ~Truthy(params.controllers) \/ params.controllers.t # "arr"
       \/ Len(params.controllers.e) = 0
    THEN [ok |-> FALSE, message |-> <<"A", "t", " ", "l", "e", "a", "s", "t", " ", "o", "n", "e", " ", "c", "o", "n", "t", "r", "o", "l", "l", "e", "r", " ", "i", "s", " ", "r", "e", "q", "u", "i", "r", "e", "d">>]
    ELSE IF firstNonFunction(params.controllers.e, 1) >= 0
    THEN [ok |-> FALSE,
          message |-> <<"C", "o", "n", "t", "r", "o", "l", "l", "e", "r", " ", "a", "t", " ", "i", "n", "d", "e", "x", " ">>
                      \o IntToString(firstNonFunction(params.controllers.e, 1))
                      \o <<" ", "m", "u", "s", "t", " ", "b", "e", " ", "a", " ", "c", "l", "a", "s", "s", " ", "c", "o", "n", "s", "t", "r", "u", "c", "t", "o", "r">>]
    ELSE IF ~Truthy(params.listeners) THEN [ok |-> TRUE, message |-> <<>>]
    ELSE IF params.listeners.t # "arr"
    THEN [ok |-> FALSE, message |-> <<"L", "i", "s", "t", "e", "n", "e", "r", "s", " ", "m", "u", "s", "t", " ", "b", "e", " ", "a", "n", " ", "a", "r", "r", "a", "y">>]
    ELSE IF firstNonFunction(params.listeners.e, 1) >= 0
    THEN [ok |-> FALSE,
          message |-> <<"L", "i", "s", "t", "e", "n", "e", "r", " ", "a", "t", " ", "i", "n", "d", "e", "x", " ">>
                      \o IntToString(firstNonFunction(params.listeners.e, 1))
                      \o <<" ", "m", "u", "s", "t", " ", "b", "e", " ", "a", " ", "c", "l", "a", "s", "s", " ", "c", "o", "n", "s", "t", "r", "u", "c", "t", "o", "r">>]
    ELSE [ok |-> TRUE, message |-> <<>>]

\* faulty variant: a name already in the table keeps its first listener
registerListenerFirstWins(ls, cls) ==
    LET m == listenerMetadata(cls)
    IN  IF ~m.defined THEN ls
        ELSE IF m.metadata.type = "eventName"
        THEN IF HasOwn(ls.eventName, m.metadata.name) THEN ls
             ELSE [ls EXCEPT !.eventName = SetOwn(ls.eventName, m.metadata.name, cls)]
        ELSE [ls EXCEPT !.patterns =
                 Append(ls.patterns, [handler |-> cls, config |-> m.metadata.config])]

\* one step of params.listeners.forEach (lines 58-79)
registerListener(ls, cls) ==
    LET m == listenerMetadata(cls)
    IN  IF ~m.defined THEN ls
        ELSE IF m.metadata.type = "eventName"
        THEN [ls EXCEPT !.eventName = SetOwn(ls.eventName, m.metadata.name, cls)]
        ELSE [ls EXCEPT !.patterns =
                 Append(ls.patterns, [handler |-> cls, config |-> m.metadata.config])]

RECURSIVE registerListeners(_, _, _)
\* this.listeners after the first n listeners were registered
registerListeners(ls, items, n) ==
    IF n = 0 THEN ls
    ELSE registerListener(registerListeners(ls, items, n - 1), items[n])

RECURSIVE objectAssign(_, _, _)
\* Object.assign(target, source), over the first n own entries of source
objectAssign(target, source, n) ==
    IF n = 0 THEN target
    ELSE SetOwn(objectAssign(target, source, n - 1), source.kv[n].k, source.kv[n].v)

\* Object.assign(this[VERB], Reflect.getMetadata('fusion:verb', controller) || {})
assignRoutes(table, controller, verb) ==
    objectAssign(table, verbMetadata(controller, verb), Len(verbMetadata(controller, verb).kv))

\* one step of params.controllers.forEach (lines 82-112) on [controllers, routes]
registerController(cr, controller) ==
    IF ~Truthy(routeMetadata(controller)) THEN cr
    ELSE [controllers |-> SetOwn(cr.controllers, routeMetadata(controller).s, controller),
          routes |-> [GET |-> assignRoutes(cr.routes.GET, controller, "GET"),
                      POST |-> assignRoutes(cr.routes.POST, controller, "POST"),
                      PUT |-> assignRoutes(cr.routes.PUT, controller, "PUT"),
                      DELETE |-> assignRoutes(cr.routes.DELETE, controller, "DELETE"),
                      PATCH |-> assignRoutes(cr.routes.PATCH, controller, "PATCH")]]

RECURSIVE registerControllers(_, _, _)
registerControllers(cr, items, n) ==
    IF n = 0 THEN cr
    ELSE registerController(registerControllers(cr, items, n - 1), items[n])

(***************************************************************************)
(* Bounds and the inputs drawn from them.                                  *)
(***************************************************************************)
MaxListeners == 2

MaxControllers == 2

RECURSIVE SeqsUpTo(_, _)
\* the sequences over S of length at most n
SeqsUpTo(S, n) ==
    IF n = 0 THEN {<<>>}
    ELSE SeqsUpTo(S, n - 1) \cup {Append(q, x) : q \in SeqsUpTo(S, n - 1), x \in S}

ClassList(names) == Arr([i \in 1..Len(names) |-> Fn(names[i])])

ListenerLists == {ClassList(q) : q \in SeqsUpTo(ListenerClasses, MaxListeners)}

ControllerLists == {ClassList(q) : q \in SeqsUpTo(ControllerClasses, MaxControllers) \ {<<>>}}

CorsAbsent ==
    [defined |-> FALSE, enabled |-> FALSE, hasAllowOrigins |-> FALSE, allowOrigins |-> <<>>,
     allowMethods |-> <<>>, allowHeaders |-> <<>>, exposeHeaders |-> <<>>,
     credentials |-> FALSE, hasMaxAge |-> FALSE, maxAge |-> 0]

CorsOn ==
    [defined |-> TRUE, enabled |-> TRUE, hasAllowOrigins |-> TRUE,
     allowOrigins |-> <<<<"o", "1">>, <<"o", "3">>>>,
     allowMethods |-> <<S_GET, S_POST>>, allowHeaders |-> <<>>, exposeHeaders |-> <<>>,
     credentials |-> TRUE, hasMaxAge |-> TRUE, maxAge |-> 60]

CorsOff == [CorsOn EXCEPT !.enabled = FALSE]

\* enabled, with '*' listed between two origins
CorsStar ==
    [defined |-> TRUE, enabled |-> TRUE, hasAllowOrigins |-> TRUE,
     allowOrigins |-> <<<<"o", "3">>, <<"*">>, <<"o", "1">>>>,
     allowMethods |-> <<>>, allowHeaders |-> <<>>, exposeHeaders |-> <<>>,
     credentials |-> FALSE, hasMaxAge |-> FALSE, maxAge |-> 0]

\* enabled, with no allowOrigins member
CorsNoOrigins ==
    [defined |-> TRUE, enabled |-> TRUE, hasAllowOrigins |-> FALSE, allowOrigins |-> <<>>,
     allowMethods |-> <<S_GET>>, allowHeaders |-> <<>>, exposeHeaders |-> <<>>,
     credentials |-> FALSE, hasMaxAge |-> FALSE, maxAge |-> 0]

CorsConfigs == {CorsAbsent, CorsOn, CorsOff, CorsStar, CorsNoOrigins}

\* more malformed arguments: a second non-function entry, a non-function entry
\* after a class, both members malformed, and falsy values that are no arrays
MalformedParams ==
    {[controllers |-> Arr(<<Str(<<"c">>), Num(1)>>), listeners |-> Undef, cors |-> CorsAbsent],
     [controllers |-> Str(<<"c">>), listeners |-> Str(<<"l">>), cors |-> CorsAbsent],
     [controllers |-> Arr(<<Num(1)>>), listeners |-> Arr(<<Str(<<"l">>)>>), cors |-> CorsAbsent],
     [controllers |-> ClassList(<<"Items">>), listeners |-> Arr(<<Fn("OnX"), Str(<<"l">>)>>),
      cors |-> CorsAbsent],
     [controllers |-> ClassList(<<"Items">>), listeners |-> Str(<<>>), cors |-> CorsAbsent],
     [controllers |-> ClassList(<<"Items">>), listeners |-> Bool(FALSE), cors |-> CorsAbsent],
     [controllers |-> ClassList(<<"Items">>), listeners |-> Null, cors |-> CorsAbsent]}

\* the createHandler arguments tried: well-formed ones that vary the listeners,
\* well-formed ones that vary the controllers, well-formed ones that vary the
\* CORS configuration, and malformed ones
ParamsSet ==
    {[controllers |-> ClassList(<<"Items">>), listeners |-> l, cors |-> CorsAbsent] :
        l \in ListenerLists}
    \cup {[controllers |-> c, listeners |-> l, cors |-> k] :
            c \in ControllerLists, l \in {Undef, ClassList(<<"PatK">>)},
            k \in {CorsAbsent, CorsOn}}
    \cup {[controllers |-> ClassList(<<"Items">>), listeners |-> l, cors |-> k] :
            l \in {Undef, ClassList(<<"PatK">>)}, k \in CorsConfigs}
    \cup {[controllers |-> c, listeners |-> Undef, cors |-> CorsAbsent] :
            c \in {Null, Arr(<<>>), Arr(<<Fn("Items"), Str(<<"c">>)>>)}}
    \cup {[controllers |-> ClassList(<<"Items">>), listeners |-> l, cors |-> CorsAbsent] :
            l \in {Str(<<"l">>), Arr(<<Str(<<"l">>)>>)}}
    \cup MalformedParams

\* the optional members of an event, in the order they are written
Member(key, v) == IF v.t = "absent" THEN <<>> ELSE <<KV(key, v)>>

Absent == [t |-> "absent"]

\* an event object from its optional members
Event(name, m, r, h, c, k, rec) ==
    Obj(Member(S_event, name) \o Member(S_httpMethod, m) \o Member(S_resource, r)
        \o Member(S_headers, h) \o Member(S_requestContext, c)
        \o Member(<<"k">>, k) \o Member(<<"r">>, rec))

EventNames == {Absent, Str(<<>>), Str(<<"x">>), Str(<<"y">>), Str(S_toString)}

Records == Arr(<<Obj(<<KV(<<"s">>, Str(<<"s", "3">>))>>)>>)

\* [k, r]
Payloads ==
    {[k |-> Absent, r |-> Absent],
     [k |-> Str(<<"a", "b">>), r |-> Absent],
     [k |-> Str(<<"a", "b">>), r |-> Records]}

\* events with no resource path: trigger payloads, with or without an HTTP verb
TriggerEvents ==
    {Event(n, Absent, Absent, Absent, Absent, p.k, p.r) : n \in EventNames, p \in Payloads}
    \cup {Event(n, Str(S_GET), Absent, Absent, Absent, Str(<<"a", "b">>), Absent) :
            n \in {Absent, Str(<<"x">>)}}

\* [resource, headers, requestContext] of the API Gateway events
HttpParts ==
    {[r |-> Str(<<"/", "a">>), h |-> Absent, c |-> Absent],
     [r |-> Str(<<"/", "a">>), h |-> Obj(<<KV(S_origin, Str(<<"o", "1">>))>>),
      c |-> Obj(<<KV(S_requestId, Str(<<"r", "q">>))>>)],
     [r |-> Str(<<"/", "z", "z">>), h |-> Obj(<<KV(S_Origin, Str(<<"o", "2">>))>>), c |-> Absent]}

\* events with an HTTP verb and a resource path
GatewayEvents ==
    {Event(n, Str(S_GET), h.r, h.h, h.c, Str(<<"a", "b">>), Absent) :
        n \in {Absent, Str(<<>>), Str(<<"x">>)}, h \in HttpParts}

\* an event of n top-level keys k1, ..., kn and no name
WideEvent(n) == Obj([i \in 1..n |-> KV(<<"k">> \o NatToString(i), Num(i))])

\* events on either side of the ten keys the no-listener message lists
WideEvents == {WideEvent(10), WideEvent(11)}

\* an event whose resource path is the name of an inherited member of a table
InheritedPathEvents ==
    {Event(Absent, Str(S_GET), Str(S_toString), Absent, Absent, Absent, Absent)}

Events == TriggerEvents \cup GatewayEvents \cup WideEvents \cup InheritedPathEvents

\* an invocation context: the request id and the ARN the function was invoked by
Context(id, arn) == [awsRequestId |-> Str(id), invokedFunctionArn |-> Str(arn)]

Contexts == {Context(<<"i", "d">>, <<"f", ":", "d", "e", "v">>)}

Handled == Obj(<<KV(<<"h", "a", "n", "d", "l", "e", "d">>, Bool(TRUE))>>)

\* values a handler method returns
ReturnValues ==
    {Undef, Null, Num(7), Handled, Builtin(S_toString), BigIntV(9),
     FusionResponse(200, Obj(<<>>), Handled, FALSE),
     FusionResponse(201, Obj(<<KV(<<"X", "-", "C", "u", "s", "t", "o", "m">>, Str(<<"v">>))>>), Handled, FALSE),
     FusionResponse(200, Obj(<<KV(S_AllowOrigin, Str(<<"o", "2">>))>>), Str(<<"h", "i">>), TRUE),
     FusionResponse(404, Obj(<<>>), BigIntV(9), FALSE)}

\* values a resolver or a handler method throws (or rejects with)
ThrownValues ==
    {NewError(<<"b", "o", "o", "m">>), NewError(<<>>), ErrorV(Str(<<"n", "f">>), Num(404)),
     ErrorV(Str(<<"i", "o">>), Str(<<"E", "N", "O", "E", "N", "T">>)), Null, Undef,
     Str(<<"o", "o", "p", "s">>)}

Outcomes ==
    {[kind |-> "returns", value |-> v] : v \in ReturnValues}
    \cup {[kind |-> "throws", value |-> v] : v \in ThrownValues}
    \cup {[kind |-> "resolveThrows", value |-> NewError(<<"T", "y", "p", "e", "I", "n", "f", "o", " ", "n", "o", "t", " ", "k", "n", "o", "w", "n">>)],
          [kind |-> "resolveFalsy", value |-> Undef],
          [kind |-> "noMethod", value |-> Undef]}

(***************************************************************************)
(* The state machine: one FusionServer instance, its createHandler calls   *)
(* and the invocations of the handler it returned.                         *)
(***************************************************************************)
\* controllers .. created: the instance under study; peer: a second, independently
\* constructed instance; container: the process-wide tsyringe container;
\* inflight: the invocations that are suspended at an await
VARIABLES controllers, listeners, routes, corsConfig, created, last, peer, container,
          inflight

vars == <<controllers, listeners, routes, corsConfig, created, last, peer, container,
          inflight>>

\* the instance as the dispatch code reads it
Self ==
    [controllers |-> controllers, listeners |-> listeners, routes |-> routes,
     corsConfig |-> corsConfig]

NoEvent == Obj(<<>>)

NoOutcome == [kind |-> "none", value |-> Undef]

NoContext == [awsRequestId |-> Undef, invokedFunctionArn |-> Undef]

\* what the last operation was and what it gave: for an invocation, the protocol
\* it ran (mode), the handler-code calls it made (invoked) and its result
Last(op, evt, context, outcome, mode, invoked, result) ==
    [op |-> op, evt |-> evt, context |-> context, outcome |-> outcome, mode |-> mode,
     invoked |-> invoked, result |-> result]

Idle(op, result) == Last(op, NoEvent, NoContext, NoOutcome, "none", <<>>, result)

\* a createHandler call: evt holds its argument
Configured(op, params, result) == Last(op, params, NoContext, NoOutcome, "none", <<>>, result)

\* the invocations of the returned handler that may be in progress at once
Invocations == {"A", "B"}

\* an invocation: where it is (pc), its arguments, how its handler code gets the
\* stage and the stage values that code has resolved so far
Invocation(pc, evt, context, how, seen) ==
    [pc |-> pc, evt |-> evt, context |-> context, how |-> how, seen |-> seen]

NotRunning == Invocation("idle", NoEvent, NoContext, "none", <<>>)

\* a FusionServer as its field initializers leave it
NewInstance ==
    [controllers |-> Obj(<<>>),
     listeners |-> [eventName |-> Obj(<<>>), patterns |-> <<>>],
     routes |-> [GET |-> Obj(<<>>), POST |-> Obj(<<>>), PUT |-> Obj(<<>>),
                 DELETE |-> Obj(<<>>), PATCH |-> Obj(<<>>)],
     corsConfig |-> CorsAbsent]

Init ==
    /\ controllers = NewInstance.controllers
    /\ listeners = NewInstance.listeners
    /\ routes = NewInstance.routes
    /\ corsConfig = NewInstance.corsConfig
    /\ created = FALSE
    /\ last = Idle("new", Undef)
    /\ peer = NewInstance
    /\ container = [stage |-> Undef]
    /\ inflight = [i \in Invocations |-> NotRunning]

\* createHandler(params) returns a handler
CreateHandler(params) ==
    /\ ~created
    /\ validateHandlerParams(params).ok
    /\ corsConfig' = params.cors
    /\ listeners' = IF Truthy(params.listeners)
                    THEN registerListeners(listeners, params.listeners.e,
                                           Len(params.listeners.e))
                    ELSE listeners
    /\ LET cr == registerControllers([controllers |-> controllers, routes |-> routes],
                                     params.controllers.e, Len(params.controllers.e))
       IN  controllers' = cr.controllers /\ routes' = cr.routes
    /\ created' = TRUE
    /\ last' = Configured("createHandler", params, Undef)
    /\ UNCHANGED <<peer, container, inflight>>

\* createHandler(params) throws: validateHandlerParams runs before any assignment
CreateHandlerThrows(params) ==
    /\ ~created
    /\ ~validateHandlerParams(params).ok
    /\ last' = Configured("createHandlerThrew", params,
                           NewError(validateHandlerParams(params).message))
    /\ UNCHANGED <<controllers, listeners, routes, corsConfig, created, peer, container, inflight>>

\* one invocation of the returned handler, from the call to the value it resolves
\* to; the host delivers one event at a time
Dispatch(evt, context, outcome) ==
    /\ created
    /\ last.op # "dispatch"
    /\ last' = Last("dispatch", evt, context, outcome, dispatchMode(Self, evt),
                    dispatchInvoked(Self, evt, outcome),
                    returnedHandler(Self, evt, context, outcome))
    /\ container' = register(container, stageOf(context))
    /\ UNCHANGED <<controllers, listeners, routes, corsConfig, created, peer, inflight>>

\* the host has taken the result of the invocation
Returned ==
    /\ last.op = "dispatch"
    /\ last' = Idle("returned", Undef)
    /\ UNCHANGED <<controllers, listeners, routes, corsConfig, created, peer, container, inflight>>

Next ==
    \/ \E params \in ParamsSet : CreateHandler(params)
    \/ \E params \in ParamsSet : CreateHandlerThrows(params)
    \/ \E evt \in Events, context \in Contexts, outcome \in Outcomes :
          Dispatch(evt, context, outcome)
    \/ Returned

Spec == Init /\ [][Next]_vars

(***************************************************************************)
(* Direct calls of the exported functions: last records the call, its      *)
(* arguments and its outcome ([thrown, value]).                            *)
(***************************************************************************)
\* the status codes, header sets and bodies of the response objects tried
ResponseStatuses == {200, 404}

ResponseHeaders ==
    {Obj(<<>>),
     Obj(<<KV(<<"X", "-", "C", "u", "s", "t", "o", "m">>, Str(<<"v">>))>>),
     Obj(<<KV(S_ContentType, Str(<<"t", "e", "x", "t", "/", "p", "l", "a", "i", "n">>))>>),
     Obj(<<KV(S_ContentType, Str(<<>>))>>)}

ResponseBodies ==
    {Undef, Null, Str(<<>>), Str(<<"h", "i">>), Num(7), Bool(FALSE), Handled,
     Arr(<<Num(1), Null>>), BigIntV(9), Obj(<<KV(<<"n">>, BigIntV(9))>>), Builtin(S_toString)}

Responses ==
    {FusionResponse(c, h, b, e) :
        c \in ResponseStatuses, h \in ResponseHeaders, b \in ResponseBodies, e \in BOOLEAN}

\* no call is in progress
NoCall == last.op \notin {"dispatch", "toResponse", "extractValue", "matchPattern"}

\* r.toResponse()
CallToResponse(r) ==
    /\ NoCall
    /\ last' = [op |-> "toResponse", self |-> r, after |-> toResponseAfter(r),
                outcome |-> IF toResponseThrows(r)
                            THEN Throw(NewError(<<"D", "o", " ", "n", "o", "t", " ", "k", "n", "o", "w", " ", "h", "o", "w", " ", "t", "o", " ", "s", "e", "r", "i", "a", "l", "i", "z", "e", " ", "a", " ", "B", "i", "g", "I", "n", "t">>))
                            ELSE Return(toResponse(r))]
    /\ UNCHANGED <<controllers, listeners, routes, corsConfig, created, peer, container, inflight>>

\* the roots and the paths of the direct calls of extractValue
ExtractRoots ==
    {Undef, Null, Str(<<"a", "b">>), Num(7), Obj(<<>>),
     Arr(<<Str(<<"a">>), Null>>),
     Obj(<<KV(<<"k">>, Str(<<"a", "b">>)), KV(<<"n">>, Null), KV(<<"0">>, Num(1)),
           KV(<<"r">>, Arr(<<Obj(<<KV(<<"s">>, Str(<<"b">>))>>), Null>>))>>)}

ExtractPaths ==
    {<<>>, <<".">>, <<"k">>, <<"n">>, <<"z">>, <<"0">>, <<"1">>, <<"[", "1", "]">>, <<"[", "2", "]">>, <<"n", ".", "x">>, <<"k", ".", "x">>,
     <<"r", "[", "0", "]", ".", "s">>, <<"r", ".", "0", ".", "s">>, <<"r", "[", "1", "]">>, <<"r", "[", "2", "]">>, <<"r", "[", "1", "]", ".", "s">>, <<"r", ".", ".", "0">>, <<"r", ".", "s">>,
     S_toString, <<"k", ".", "c", "o", "n", "s", "t", "r", "u", "c", "t", "o", "r">>, <<"r", ".", "t", "o", "S", "t", "r", "i", "n", "g">>}

\* extractValue(root, path)
CallExtractValue(root, path) ==
    /\ NoCall
    /\ last' = [op |-> "extractValue", root |-> root, path |-> path,
                outcome |-> IF extractValueThrows(root, path)
                            THEN Throw(NewError(<<"C", "a", "n", "n", "o", "t", " ", "u", "s", "e", " ", "'", "i", "n", "'", " ", "o", "p", "e", "r", "a", "t", "o", "r">>))
                            ELSE Return(extractValue(root, path))]
    /\ UNCHANGED <<controllers, listeners, routes, corsConfig, created, peer, container, inflight>>

\* the values and the patterns of the direct calls of matchPattern
MatchValues ==
    {Undef, Null, Str(<<>>), Str(<<"a">>), Str(<<"a", "b">>), Str(<<"a", "*">>), Str(<<"*", "x">>), Num(123),
     Bool(TRUE), Obj(<<>>), Arr(<<Str(<<"a">>), Str(<<"b">>)>>)}

MatchPatterns ==
    {One(p) : p \in {<<"*">>, <<"a", "*">>, <<"a", "b">>, <<>>, <<"1", "2", "3">>, <<"1", "2", "*">>, <<"*", "*">>, <<"*", "x">>, <<"t", "r", "u", "e">>,
                     <<"a", ",", "b">>, <<"n", "u", "l", "l">>, <<"u", "n", "d", "e", "f", "i", "n", "e", "d">>, S_objectObject}}
    \cup {AnyOf(q) : q \in {<<>>, <<<<"c">>>>, <<<<"*">>>>, <<<<"a", "b">>, <<"c">>>>, <<<<"c">>, <<"a", "b">>>>,
                             <<<<"z">>, <<"a", "*">>>>, <<<<"a", "*">>, <<"z">>>>, <<<<"1", "2", "3">>, <<"t", "r", "u", "e">>>>}}

\* matchPattern(value, pattern)
CallMatchPattern(value, pattern) ==
    /\ NoCall
    /\ last' = [op |-> "matchPattern", value |-> value, pattern |-> pattern,
                outcome |-> Return(Bool(matchPattern(value, pattern)))]
    /\ UNCHANGED <<controllers, listeners, routes, corsConfig, created, peer, container, inflight>>

\* the caller has taken the outcome of the call
CallReturned ==
    /\ last.op \in {"toResponse", "extractValue", "matchPattern"}
    /\ last' = Idle("returned", Undef)
    /\ UNCHANGED <<controllers, listeners, routes, corsConfig, created, peer, container, inflight>>

NextFn ==
    \/ \E r \in Responses : CallToResponse(r)
    \/ \E root \in ExtractRoots, path \in ExtractPaths : CallExtractValue(root, path)
    \/ \E value \in MatchValues, pattern \in MatchPatterns : CallMatchPattern(value, pattern)
    \/ CallReturned

SpecFn == Init /\ [][NextFn]_vars

(***************************************************************************)
(* Vocabulary of the properties.                                           *)
(***************************************************************************)
Dispatched == last.op = "dispatch"

\* the event-name field of the dispatched event (undefined when absent)
EvName == Prop(last.evt, S_event)

\* the event carries an event name: the field holds a truthy value (the code tests
\* truthiness, so an empty name counts as no name)
HasName == Truthy(EvName)

\* the event's name was registered by an event-name listener of the handler
NameRegistered == HasName /\ EvName.t = "str" /\ HasOwn(listeners.eventName, EvName.s)

\* class c is declared @Listener(name) with the string name
DeclaredForName(c, name) ==
    /\ "name" \in DOMAIN c
    /\ c.name \in ListenerClasses
    /\ listenerDecl(c.name).decorated
    /\ ~listenerDecl(c.name).config.isObject
    /\ listenerDecl(c.name).config.name = name

\* the registered pattern listeners whose configuration matches the event
MatchingPatterns == {i \in 1..Len(listeners.patterns) :
                        matchesPatterns(last.evt, listeners.patterns[i].config)}

\* the first of them in registration order
FirstMatching == CHOOSE i \in MatchingPatterns : \A j \in MatchingPatterns : i <= j

HandlerRan == last.outcome.kind \in {"returns", "throws"}

HandleCall(c) == [target |-> c, method |-> <<"h", "a", "n", "d", "l", "e">>]

\* C1: an event whose name is registered by an event-name listener goes to listener
\* dispatch, only a listener declared for that name is invoked (it is invoked
\* whenever a handler runs), no pattern listener is, and a plain result is wrapped
\* with matchType 'eventName', whether or not pattern listeners match the event too.
C1_EventNamePriority ==
    (Dispatched /\ NameRegistered) =>
        /\ last.mode = "listener"
        /\ \A i \in 1..Len(last.invoked) :
              /\ DeclaredForName(last.invoked[i].target, EvName.s)
              /\ \A j \in 1..Len(listeners.patterns) :
                    last.invoked[i].target # listeners.patterns[j].handler
        /\ HandlerRan => Len(last.invoked) = 1
        /\ (last.outcome.kind = "returns" /\ last.outcome.value.t # "resp")
              => last.result = ListenerWrapper(S_eventName, last.outcome.value)

C1_Witness ==
    /\ Dispatched /\ NameRegistered
    /\ MatchingPatterns # {}
    /\ last.outcome.kind = "returns"
    /\ last.invoked = <<HandleCall(Fn("OnX"))>>
    /\ last.result = ListenerWrapper(S_eventName, last.outcome.value)

\* C2: an event sent to listener dispatch whose name is absent or not registered is
\* given to exactly the first pattern listener, in registration order, whose
\* configuration matches it (matchType 'pattern'), and to no later one.
C2_FirstPatternWins ==
    (Dispatched /\ last.mode = "listener" /\ ~NameRegistered /\ MatchingPatterns # {}) =>
        /\ \A i \in 1..Len(last.invoked) :
              last.invoked[i] = HandleCall(listeners.patterns[FirstMatching].handler)
        /\ HandlerRan => Len(last.invoked) = 1
        /\ (last.outcome.kind = "returns" /\ last.outcome.value.t # "resp")
              => last.result = ListenerWrapper(S_pattern, last.outcome.value)

\* a listener was selected by this listener dispatch
ListenerSelected ==
    /\ Dispatched /\ last.mode = "listener"
    /\ Truthy(selectListener(last.evt, listeners).listenerClass)

\* v is exactly { success: false, body: { message: <any>, event } }
IsFailureEnvelope(v, event) ==
    /\ v.t = "obj"
    /\ ObjectKeys(v) = <<S_success, S_body>>
    /\ GetOwn(v, S_success) = Bool(FALSE)
    /\ GetOwn(v, S_body).t = "obj"
    /\ ObjectKeys(GetOwn(v, S_body)) = <<S_message, S_event>>
    /\ GetOwn(GetOwn(v, S_body), S_event) = event

\* C3: once a listener is selected, a failing resolver, a missing handle() or a
\* handle() that throws or rejects with any value gives the failure envelope
\* { success: false, body: { message, event } }, event being the event's name or
\* 'pattern-matched'.
C3_ListenerFailureEnvelope ==
    (ListenerSelected
     /\ last.outcome.kind \in {"resolveThrows", "resolveFalsy", "noMethod", "throws"}) =>
        IsFailureEnvelope(last.result, IF HasName THEN EvName ELSE Str(S_patternMatched))

\* v is { statusCode, headers, body } (and no more than isBase64Encoded besides)
HasEnvelopeMembers(v) ==
    /\ v.t = "obj"
    /\ HasOwn(v, S_statusCode) /\ HasOwn(v, S_headers) /\ HasOwn(v, S_body)

\* C4: every event classified as HTTP dispatch yields an envelope with a numeric
\* statusCode, a headers mapping and a string body, whatever the handler does.
C4_HttpEnvelopeWellFormed ==
    (Dispatched /\ last.mode = "http") =>
        /\ HasEnvelopeMembers(last.result)
        /\ GetOwn(last.result, S_statusCode).t = "num"
        /\ GetOwn(last.result, S_headers).t = "obj"
        /\ GetOwn(last.result, S_body).t = "str"

\* the value the try block of handleController threw in this dispatch
HttpThrown == controllerTry(Self, last.evt, last.outcome)

\* the numeric code a thrown value carries, else 500
ExpectedStatus(err) ==
    IF ~IsNullish(err) /\ Prop(err, S_code).t = "num" THEN Prop(err, S_code) ELSE Num(500)

\* the message a thrown value carries, else the default one
ExpectedMessage(err) ==
    IF ~IsNullish(err) /\ Truthy(Prop(err, S_message)) THEN Prop(err, S_message)
    ELSE Str(S_InternalServerError)

\* C5: when anything in HTTP dispatch throws, statusCode is the thrown value's
\* numeric code if it carries one and 500 otherwise, and the body is the JSON text
\* of { message, requestId } with the thrown value's message.
C5_ErrorStatusAndBody ==
    (Dispatched /\ last.mode = "http" /\ HttpThrown.thrown) =>
        /\ HasEnvelopeMembers(last.result)
        /\ GetOwn(last.result, S_statusCode) = ExpectedStatus(HttpThrown.value)
        /\ GetOwn(last.result, S_body) =
              Str(Serialize(Obj(<<
                  KV(S_message, ExpectedMessage(HttpThrown.value)),
                  KV(S_requestId, OptProp(Prop(last.evt, S_requestContext), S_requestId))>>)))

\* the cross-origin headers of the configuration for the request's origin
ExpectedCors == applyCorsHeaders(Obj(<<>>), requestOrigin(last.evt), corsConfig)

\* C6: with CORS enabled, every envelope returned for an event classified as HTTP
\* dispatch carries the cross-origin headers computed from the configuration and
\* the request's origin, on success and on every error outcome.
C6_CorsOnEveryHttpEnvelope ==
    (Dispatched /\ last.mode = "http" /\ corsConfig.defined /\ corsConfig.enabled) =>
        /\ HasEnvelopeMembers(last.result)
        /\ \A i \in 1..Len(ExpectedCors.kv) :
              /\ HasOwn(GetOwn(last.result, S_headers), ExpectedCors.kv[i].k)
              /\ GetOwn(GetOwn(last.result, S_headers), ExpectedCors.kv[i].k)
                    = ExpectedCors.kv[i].v

\* the event carries both an HTTP verb and a resource path ("carries" as the
\* code reads a field: present with a truthy value)
HasVerbAndResource ==
    Truthy(Prop(last.evt, S_httpMethod)) /\ Truthy(Prop(last.evt, S_resource))

\* the protocol the four classification rules give the event
ClassifiedAs ==
    IF HasName THEN "listener"
    ELSE IF HasVerbAndResource THEN "http"
    ELSE IF Len(listeners.patterns) > 0 THEN "listener"
    ELSE "http"

PatternHandlers == {listeners.patterns[i].handler : i \in 1..Len(listeners.patterns)}

\* C7: every event is classified by the first applicable rule: a name gives
\* listener dispatch; else a verb and a resource path give HTTP dispatch; else a
\* registered pattern listener gives listener dispatch; else HTTP dispatch.  So an
\* event with verb and path and no name never reaches a pattern listener, and one
\* with only one of the two reaches the first matching pattern listener.
C7_Classification ==
    Dispatched =>
        /\ last.mode = ClassifiedAs
        /\ (~HasName /\ HasVerbAndResource) =>
              \A i \in 1..Len(last.invoked) :
                  /\ last.invoked[i].target \notin PatternHandlers
                  /\ last.invoked[i].method # <<"h", "a", "n", "d", "l", "e">>
        /\ (~HasName /\ ~HasVerbAndResource /\ MatchingPatterns # {} /\ HandlerRan) =>
              last.invoked = <<HandleCall(listeners.patterns[FirstMatching].handler)>>

C7_Witness ==
    /\ Dispatched /\ ~HasName /\ HasVerbAndResource
    /\ MatchingPatterns # {}
    /\ last.mode = "http"
    /\ last.outcome.kind = "returns"
    /\ last.invoked = <<[target |-> Fn("Items"), method |-> <<"l", "i", "s", "t">>]>>

\* the listener was found in the event-name table (line 209)
ViaNameTable == HasName /\ HasProperty(listeners.eventName, ToStr(EvName))

\* C8: in listener dispatch a returned value that is not an explicit response
\* object gives exactly { success: true, matchType, body: value }, matchType being
\* 'eventName' when the listener came from the event-name table and 'pattern'
\* when it came from the pattern scan.
C8_WrapperMatchType ==
    (ListenerSelected /\ last.outcome.kind = "returns" /\ last.outcome.value.t # "resp") =>
        /\ last.result.t = "obj"
        /\ ObjectKeys(last.result) = <<S_success, S_matchType, S_body>>
        /\ GetOwn(last.result, S_success) = Bool(TRUE)
        /\ GetOwn(last.result, S_body) = last.outcome.value
        /\ GetOwn(last.result, S_matchType) =
              Str(IF ViaNameTable THEN <<"e", "v", "e", "n", "t", "N", "a", "m", "e">> ELSE <<"p", "a", "t", "t", "e", "r", "n">>)
        /\ ~ViaNameTable => MatchingPatterns # {}

C8_Witness ==
    /\ ListenerSelected /\ ~ViaNameTable /\ HasName
    /\ last.outcome = [kind |-> "returns", value |-> Num(7)]
    /\ last.result = Obj(<<KV(S_success, Bool(TRUE)), KV(S_matchType, Str(<<"p", "a", "t", "t", "e", "r", "n">>)),
                           KV(S_body, Num(7))>>)

\* a listener returned the explicit response object last.outcome.value
ListenerReturnedResponse ==
    ListenerSelected /\ last.outcome.kind = "returns" /\ last.outcome.value.t = "resp"

\* the response object carries no header and the default status
IsPlainResponse(r) == ObjectKeys(r.headers) = <<>> /\ r.statusCode = 200

\* v is the HTTP envelope of response object r: its status, its headers (and
\* possibly Content-Type), a string body
IsEnvelopeOf(v, r) ==
    /\ HasEnvelopeMembers(v)
    /\ GetOwn(v, S_statusCode) = Num(r.statusCode)
    /\ GetOwn(v, S_headers).t = "obj"
    /\ \A i \in 1..Len(r.headers.kv) :
          GetProperty(GetOwn(v, S_headers), r.headers.kv[i].k) = r.headers.kv[i].v
    /\ GetOwn(v, S_body).t = "str"
    /\ r.body.t = "str" => GetOwn(v, S_body) = r.body
    /\ IsNullish(r.body) => GetOwn(v, S_body) = Str(<<>>)
    /\ (~IsNullish(r.body) /\ r.body.t # "str") =>
          GetOwn(v, S_body) = Str(Serialize(r.body))

\* C9 as stated: a returned response object with no header and status 200 gives
\* its raw body; one with a header or another status gives the full HTTP envelope
\* { statusCode, headers, body } with the body serialized.
C9_ResponseObjectForms ==
    ListenerReturnedResponse =>
        IF IsPlainResponse(last.outcome.value)
        THEN last.result = last.outcome.value.body
        ELSE IsEnvelopeOf(last.result, last.outcome.value)

\* JSON.stringify throws on the body of r (only a non-string, non-null body is
\* given to it)
BodyNotSerializable(r) == ~IsNullish(r.body) /\ r.body.t # "str" /\ HasBigInt(r.body)

\* C9 (amended): a returned response object with no header and status 200 gives
\* its raw body; one with a header or another status gives the full HTTP envelope
\* with the body serialized when the body can be serialized, and the failure
\* envelope { success: false, body: { message, event } } when serializing throws.
C9_ResponseObjectFormsSerializable ==
    ListenerReturnedResponse =>
        IF IsPlainResponse(last.outcome.value)
        THEN last.result = last.outcome.value.body
        ELSE IF BodyNotSerializable(last.outcome.value)
        THEN IsFailureEnvelope(last.result,
                               IF HasName THEN EvName ELSE Str(S_patternMatched))
        ELSE IsEnvelopeOf(last.result, last.outcome.value)

C9_Witness ==
    /\ ListenerReturnedResponse
    /\ last.outcome.value.statusCode = 200
    /\ ObjectKeys(last.outcome.value.headers) = <<S_AllowOrigin>>
    /\ last.result = Obj(<<KV(S_statusCode, Num(200)),
                           KV(S_headers, Obj(<<KV(S_AllowOrigin, Str(<<"o", "2">>))>>)),
                           KV(S_body, Str(<<"h", "i">>)),
                           KV(S_isBase64Encoded, Bool(TRUE))>>)

\* a controller method returned a value that is not an explicit response object
ControllerReturnedValue ==
    /\ Dispatched /\ last.mode = "http" /\ Len(last.invoked) = 1
    /\ last.outcome.kind = "returns" /\ last.outcome.value.t # "resp"

\* v is the 204 envelope: body '' and no Content-Type header
IsEmptyEnvelope(v) ==
    /\ HasEnvelopeMembers(v)
    /\ GetOwn(v, S_statusCode) = Num(204)
    /\ GetOwn(v, S_body) = Str(<<>>)
    /\ GetOwn(v, S_headers).t = "obj"
    /\ ~HasOwn(GetOwn(v, S_headers), S_ContentType)

\* v is the 200 envelope with Content-Type 'application/json' and a JSON text
IsJsonEnvelope(v, value) ==
    /\ HasEnvelopeMembers(v)
    /\ GetOwn(v, S_statusCode) = Num(200)
    /\ GetOwn(v, S_headers).t = "obj"
    /\ GetProperty(GetOwn(v, S_headers), S_ContentType) = Str(S_applicationJson)
    /\ GetOwn(v, S_body).t = "str"
    /\ GetOwn(v, S_body) = Str(Serialize(value))

\* C10 as stated: in HTTP dispatch a returned null or undefined gives 204 with
\* body '' and no Content-Type; any other value that is not a response object
\* gives 200 with Content-Type 'application/json' and the value's JSON text.
C10_HttpNormalization ==
    ControllerReturnedValue =>
        IF IsNullish(last.outcome.value) THEN IsEmptyEnvelope(last.result)
        ELSE IsJsonEnvelope(last.result, last.outcome.value)

\* C10 (amended): null or undefined gives 204 with body '' and no Content-Type;
\* any other value that JSON.stringify turns into a text gives 200 with
\* Content-Type 'application/json' and that text as body; a value JSON.stringify
\* throws on gives the error envelope with statusCode 500.
C10_HttpNormalizationOfJsonValues ==
    ControllerReturnedValue =>
        IF IsNullish(last.outcome.value) THEN IsEmptyEnvelope(last.result)
        ELSE IF JSONstringify(last.outcome.value).kind = "text"
        THEN IsJsonEnvelope(last.result, last.outcome.value)
        ELSE JSONstringify(last.outcome.value).kind = "throws" =>
                /\ HasEnvelopeMembers(last.result)
                /\ GetOwn(last.result, S_statusCode) = Num(500)

C10_Witness ==
    /\ ControllerReturnedValue
    /\ last.outcome.value = Handled
    /\ corsConfig.defined /\ corsConfig.enabled
    /\ GetOwn(last.result, S_statusCode) = Num(200)
    /\ GetProperty(GetOwn(last.result, S_headers), S_ContentType) = Str(S_applicationJson)
    /\ GetOwn(last.result, S_body) = Str(<<"{", "\"", "h", "a", "n", "d", "l", "e", "d", "\"", ":", "t", "r", "u", "e", "}">>)

\* toResponse() was called on the response object last.self
ToResponseCalled == last.op = "toResponse"

\* the body of the response object is neither null, undefined nor a string
HasOtherBody(r) == ~IsNullish(r.body) /\ r.body.t # "str"

\* v is the envelope the rules give response object r, Content-Type being
\* defaulted when defaultType holds
IsVerbatimEnvelope(v, r, defaultType) ==
    /\ HasEnvelopeMembers(v)
    /\ GetOwn(v, S_statusCode) = Num(r.statusCode)
    /\ GetOwn(v, S_headers) =
          (IF defaultType THEN SetOwn(r.headers, S_ContentType, Str(S_applicationJson))
           ELSE r.headers)
    /\ IsNullish(r.body) => GetOwn(v, S_body) = Str(<<>>)
    /\ r.body.t = "str" => GetOwn(v, S_body) = r.body
    /\ HasOtherBody(r) => GetOwn(v, S_body) = Str(Serialize(r.body))

\* C11 as stated: toResponse() gives the declared statusCode and headers; the body
\* is '' for a null or undefined body, the string for a string body and the JSON
\* text for any other body, Content-Type then defaulting to 'application/json'
\* only if no Content-Type was set.
C11_ToResponseVerbatim ==
    ToResponseCalled =>
        /\ ~last.outcome.thrown
        /\ IsVerbatimEnvelope(last.outcome.value, last.self,
                              HasOtherBody(last.self) /\ ~HasOwn(last.self.headers, S_ContentType))

\* C11 (amended): as stated for every body that is null, undefined, a string or a
\* value with a JSON text, Content-Type defaulting to 'application/json' unless a
\* non-empty Content-Type was set; toResponse() throws when JSON.stringify throws
\* on the body.
C11_ToResponseVerbatimOfJsonBodies ==
    ToResponseCalled =>
        IF HasOtherBody(last.self) /\ JSONstringify(last.self.body).kind = "throws"
        THEN last.outcome.thrown
        ELSE (HasOtherBody(last.self) => JSONstringify(last.self.body).kind = "text") =>
                /\ ~last.outcome.thrown
                /\ IsVerbatimEnvelope(last.outcome.value, last.self,
                      /\ HasOtherBody(last.self)
                      /\ ~(/\ HasOwn(last.self.headers, S_ContentType)
                           /\ GetOwn(last.self.headers, S_ContentType) # Str(<<>>)))

C11_Witness ==
    /\ ToResponseCalled
    /\ last.self = FusionResponse(404, Obj(<<KV(<<"X", "-", "C", "u", "s", "t", "o", "m">>, Str(<<"v">>))>>), Handled, FALSE)
    /\ last.outcome = Return(Obj(<<
          KV(S_statusCode, Num(404)),
          KV(S_headers, Obj(<<KV(<<"X", "-", "C", "u", "s", "t", "o", "m">>, Str(<<"v">>)),
                              KV(S_ContentType, Str(S_applicationJson))>>)),
          KV(S_body, Str(<<"{", "\"", "h", "a", "n", "d", "l", "e", "d", "\"", ":", "t", "r", "u", "e", "}">>))>>))

\* listener dispatch found no entry of the event-name table under the event's
\* name and no pattern listener matching the event
NoListenerFor ==
    Dispatched /\ last.mode = "listener" /\ ~ViaNameTable /\ MatchingPatterns = {}

\* the first n keys of the event joined by ', '
RECURSIVE KeyList(_, _)
KeyList(keys, n) ==
    IF n = 0 THEN <<>>
    ELSE IF n = 1 THEN keys[1]
    ELSE KeyList(keys, n - 1) \o <<",", " ">> \o keys[n]

\* the message the no-listener error carries for the event
ExpectedNoListenerMessage ==
    IF HasName THEN <<"U", "n", "r", "e", "g", "i", "s", "t", "e", "r", "e", "d", " ", "l", "i", "s", "t", "e", "n", "e", "r", " ", "f", "o", "r", " ", "e", "v", "e", "n", "t", ":", " ">> \o ToStr(EvName)
    ELSE LET keys == ObjectKeys(last.evt)
         IN  <<"N", "o", " ", "p", "a", "t", "t", "e", "r", "n", "-", "m", "a", "t", "c", "h", "e", "d", " ", "l", "i", "s", "t", "e", "n", "e", "r", " ", "f", "o", "u", "n", "d", " ", "f", "o", "r", " ", "e", "v", "e", "n", "t", " ", "s", "t", "r", "u", "c", "t", "u", "r", "e", ".", " ", "E", "v", "e", "n", "t", " ", "k", "e", "y", "s", ":", " ">>
             \o KeyList(keys, IF Len(keys) > 10 THEN 10 ELSE Len(keys))
             \o (IF Len(keys) > 10 THEN <<".", ".", ".">> ELSE <<>>)

RouteTable(verb) ==
    CASE verb = S_GET -> routes.GET
      [] verb = S_POST -> routes.POST
      [] verb = S_PUT -> routes.PUT
      [] verb = S_DELETE -> routes.DELETE
      [] verb = S_PATCH -> routes.PATCH
      [] OTHER -> Obj(<<>>)

\* the route table holds an entry for the event's (verb, resource path)
HasRouteEntry ==
    /\ Prop(last.evt, S_httpMethod).t = "str"
    /\ Prop(last.evt, S_resource).t = "str"
    /\ HasOwn(RouteTable(Prop(last.evt, S_httpMethod).s), Prop(last.evt, S_resource).s)

\* the JSON text of { message, requestId } for this invocation
ErrorBody(message) ==
    LET id == OptProp(Prop(last.evt, S_requestContext), S_requestId)
    IN  <<"{", "\"", "m", "e", "s", "s", "a", "g", "e", "\"", ":">> \o Quote(message)
        \o (IF id.t = "str" THEN <<",", "\"", "r", "e", "q", "u", "e", "s", "t", "I", "d", "\"", ":">> \o Quote(id.s) ELSE <<>>)
        \o <<"}">>

\* C13: an HTTP-dispatched event whose (verb, resource path) has no entry in the
\* route table invokes no handler and returns an error envelope with statusCode
\* 500 whose message is the unregistered-route error naming the verb and the path.
C13_UnregisteredRoute ==
    (Dispatched /\ last.mode = "http" /\ ~HasRouteEntry) =>
        /\ last.invoked = <<>>
        /\ HasEnvelopeMembers(last.result)
        /\ GetOwn(last.result, S_statusCode) = Num(500)
        /\ GetOwn(last.result, S_body) =
              Str(ErrorBody(<<"U", "n", "r", "e", "g", "i", "s", "t", "e", "r", "e", "d", " ", "c", "o", "n", "t", "r", "o", "l", "l", "e", "r", " ", "f", "o", "r", " ", "r", "o", "u", "t", "e", " ">>
                            \o ToStr(Prop(last.evt, S_httpMethod)) \o <<" ">>
                            \o ToStr(Prop(last.evt, S_resource))))

\* createHandler was called with the argument last.evt
CreateHandlerCalled == last.op \in {"createHandler", "createHandlerThrew"}

\* the entries of an array that are no class constructors, by zero-based index
NonFunctions(a) == {i \in 0..(Len(a.e) - 1) : a.e[i + 1].t # "fn"}

FirstNonFunction(a) == CHOOSE i \in NonFunctions(a) : \A j \in NonFunctions(a) : i <= j

\* [throws, message]: the configuration error of the argument, given which
\* values of listeners count as given
ConfigurationError(params, listenersGiven) ==
    IF IsNullish(params.controllers) \/ params.controllers.t # "arr"
       \/ Len(params.controllers.e) = 0
    THEN [throws |-> TRUE, message |-> <<"A", "t", " ", "l", "e", "a", "s", "t", " ", "o", "n", "e", " ", "c", "o", "n", "t", "r", "o", "l", "l", "e", "r", " ", "i", "s", " ", "r", "e", "q", "u", "i", "r", "e", "d">>]
    ELSE IF NonFunctions(params.controllers) # {}
    THEN [throws |-> TRUE,
          message |-> <<"C", "o", "n", "t", "r", "o", "l", "l", "e", "r", " ", "a", "t", " ", "i", "n", "d", "e", "x", " ">> \o NatToString(FirstNonFunction(params.controllers))
                      \o <<" ", "m", "u", "s", "t", " ", "b", "e", " ", "a", " ", "c", "l", "a", "s", "s", " ", "c", "o", "n", "s", "t", "r", "u", "c", "t", "o", "r">>]
    ELSE IF listenersGiven /\ params.listeners.t # "arr"
    THEN [throws |-> TRUE, message |-> <<"L", "i", "s", "t", "e", "n", "e", "r", "s", " ", "m", "u", "s", "t", " ", "b", "e", " ", "a", "n", " ", "a", "r", "r", "a", "y">>]
    ELSE IF listenersGiven /\ NonFunctions(params.listeners) # {}
    THEN [throws |-> TRUE,
          message |-> <<"L", "i", "s", "t", "e", "n", "e", "r", " ", "a", "t", " ", "i", "n", "d", "e", "x", " ">> \o NatToString(FirstNonFunction(params.listeners))
                      \o <<" ", "m", "u", "s", "t", " ", "b", "e", " ", "a", " ", "c", "l", "a", "s", "s", " ", "c", "o", "n", "s", "t", "r", "u", "c", "t", "o", "r">>]
    ELSE [throws |-> FALSE, message |-> <<>>]

\* the call threw exactly the configuration error e, before returning a handler
ThrewOrReturned(e) ==
    IF e.throws
    THEN last.op = "createHandlerThrew" /\ ~created /\ last.result = NewError(e.message)
    ELSE last.op = "createHandler" /\ created

\* C14 as stated: createHandler throws, before returning a dispatcher, 'At least
\* one controller is required' for missing, non-array or empty controllers,
\* 'Controller at index i ...' for the first non-function entry, 'Listeners must
\* be an array' when listeners is given (not null or undefined) and no array,
\* 'Listener at index i ...' for its first non-function entry.
C14_ConfigurationErrors ==
    CreateHandlerCalled =>
        ThrewOrReturned(ConfigurationError(last.evt, ~IsNullish(last.evt.listeners)))

\* C14 (amended): the same, the two listener errors being thrown when listeners
\* is truthy: a falsy listeners value (undefined, null, false, 0, '') is taken
\* as absent.
C14_ConfigurationErrorsOfTruthyListeners ==
    CreateHandlerCalled =>
        ThrewOrReturned(ConfigurationError(last.evt, Truthy(last.evt.listeners)))

C14_Witness ==
    /\ last.op = "createHandlerThrew"
    /\ ~created
    /\ last.evt.listeners = Arr(<<Fn("OnX"), Str(<<"l">>)>>)
    /\ last.result = NewError(<<"L", "i", "s", "t", "e", "n", "e", "r", " ", "a", "t", " ", "i", "n", "d", "e", "x", " ", "1", " ", "m", "u", "s", "t", " ", "b", "e", " ", "a", " ", "c", "l", "a", "s", "s", " ", "c", "o", "n", "s", "t", "r", "u", "c", "t", "o", "r">>)

\* createHandler returned a handler for the argument last.evt
HandlerCreated == last.op = "createHandler"

\* the listener and controller classes supplied to the call
SuppliedListeners == IF Truthy(last.evt.listeners) THEN last.evt.listeners.e ELSE <<>>

SuppliedControllers == last.evt.controllers.e

\* the declarations of the supplied classes
IsNameListener(c) ==
    listenerDecl(c.name).decorated /\ ~listenerDecl(c.name).config.isObject

IsPatternListener(c) ==
    listenerDecl(c.name).decorated /\ listenerDecl(c.name).config.isObject

IsDeclaredController(c) == controllerDecl(c.name).decorated

\* an event that carries only the name n
NamedEvent(n) == Obj(<<KV(S_event, Str(n))>>)

\* an API Gateway event for the verb and the resource path
RouteEvent(verb, path) == Obj(<<KV(S_httpMethod, Str(verb)), KV(S_resource, Str(path))>>)

VerbName(verb) ==
    CASE verb = "GET" -> S_GET [] verb = "POST" -> S_POST [] verb = "PUT" -> S_PUT
      [] verb = "DELETE" -> S_DELETE [] OTHER -> S_PATCH

\* a call whose handler method returns
PlainReturn == [kind |-> "returns", value |-> Undef]

\* C15: registration is partial: a class without its metadata is skipped without
\* an error, and every other class of the same call is registered and reachable:
\* a named listener under its name, the pattern listeners in the order supplied,
\* a controller under its base path with each route it declares.
C15_PartialRegistration ==
    HandlerCreated =>
        /\ created
        /\ \A i \in 1..Len(SuppliedListeners) :
              IsNameListener(SuppliedListeners[i]) =>
                 LET n == listenerDecl(SuppliedListeners[i].name).config.name
                 IN  /\ HasOwn(listeners.eventName, n)
                     /\ \E j \in 1..Len(SuppliedListeners) :
                           /\ IsNameListener(SuppliedListeners[j])
                           /\ listenerDecl(SuppliedListeners[j].name).config.name = n
                           /\ dispatchInvoked(Self, NamedEvent(n), PlainReturn)
                                 = <<HandleCall(SuppliedListeners[j])>>
        /\ [i \in 1..Len(listeners.patterns) |-> listeners.patterns[i].handler]
              = SelectSeq(SuppliedListeners, IsPatternListener)
        /\ \A i \in 1..Len(SuppliedControllers) :
              IsDeclaredController(SuppliedControllers[i]) =>
                 LET d == controllerDecl(SuppliedControllers[i].name)
                 IN  /\ HasOwn(controllers, d.route)
                     /\ IsDeclaredController(GetOwn(controllers, d.route))
                     /\ \A k \in 1..Len(d.methods) :
                           /\ HasOwn(RouteTable(VerbName(d.methods[k].verb)),
                                     d.route \o d.methods[k].route)
                           /\ Len(dispatchInvoked(Self,
                                     RouteEvent(VerbName(d.methods[k].verb),
                                                d.route \o d.methods[k].route),
                                     PlainReturn)) = 1

\* the positions of SuppliedListeners whose class declares the event name n
SuppliedFor(n) ==
    {i \in 1..Len(SuppliedListeners) :
        /\ IsNameListener(SuppliedListeners[i])
        /\ listenerDecl(SuppliedListeners[i].name).config.name = n}

\* the greatest member of a non-empty set of positions
Latest(S) == CHOOSE i \in S : \A j \in S : j <= i

\* C16: when several supplied listeners declare the same event name, the
\* exact-match table keeps the one supplied last, and an event of that name is
\* dispatched to it and to no earlier one.
C16_LastRegistrationWins ==
    HandlerCreated =>
        \A i \in 1..Len(SuppliedListeners) :
            IsNameListener(SuppliedListeners[i]) =>
                LET n == listenerDecl(SuppliedListeners[i].name).config.name
                    winner == SuppliedListeners[Latest(SuppliedFor(n))]
                IN  /\ GetOwn(listeners.eventName, n) = winner
                    /\ \A o \in {PlainReturn, [kind |-> "returns", value |-> Null]} :
                          dispatchInvoked(Self, NamedEvent(n), o) = <<HandleCall(winner)>>

C16_Witness ==
    /\ HandlerCreated
    /\ SuppliedListeners = ClassList(<<"OnX", "OnX2">>).e
    /\ GetOwn(listeners.eventName, <<"x">>) = Fn("OnX2")
    /\ dispatchInvoked(Self, NamedEvent(<<"x">>), PlainReturn) = <<HandleCall(Fn("OnX2"))>>

\* C17: route registration round-trips: for a supplied handler group with base
\* path B and a method M declared on local path L under verb V, the route table
\* of V holds under key B+L the destination 'B|M', and HTTP dispatch of (V, B+L)
\* decomposes it back to (B, M) and invokes M on the group registered under B.
C17_RouteRoundTrip ==
    HandlerCreated =>
        \A i \in 1..Len(SuppliedControllers) :
            IsDeclaredController(SuppliedControllers[i]) =>
                LET d == controllerDecl(SuppliedControllers[i].name)
                IN  \A k \in 1..Len(d.methods) :
                       LET V == VerbName(d.methods[k].verb)
                           key == d.route \o d.methods[k].route
                           M == d.methods[k].propertyKey
                       IN  /\ HasOwn(RouteTable(V), key)
                           /\ GetOwn(RouteTable(V), key) = Str(d.route \o <<"|">> \o M)
                           /\ splitRoute(GetOwn(RouteTable(V), key))
                                 = [controllerPath |-> Str(d.route), handler |-> Str(M)]
                           /\ HasOwn(controllers, d.route)
                           /\ dispatchInvoked(Self, RouteEvent(V, key), PlainReturn)
                                 = <<[target |-> GetOwn(controllers, d.route), method |-> M]>>

ExtractCalled == last.op = "extractValue"

\* the value stored at the segments parts[i..] below current, by own keys and
\* array positions only; undefined when there is none
RECURSIVE StoredAt(_, _, _)
StoredAt(current, parts, i) ==
    IF i > Len(parts) THEN current
    ELSE IF current.t = "arr"
    THEN IF AllDigits(parts[i]) /\ ParseInt(parts[i]) < Len(current.e)
         THEN StoredAt(current.e[ParseInt(parts[i]) + 1], parts, i + 1)
         ELSE Undef
    ELSE IF current.t = "obj"
    THEN IF HasOwn(current, parts[i])
         THEN StoredAt(GetOwn(current, parts[i]), parts, i + 1)
         ELSE Undef
    ELSE Undef

\* C18: extractValue(root, path) never throws; it returns undefined when the root
\* is null/undefined, the path is empty, an intermediate value is null/undefined
\* or not a container, an index is out of bounds or a key is not present, and
\* otherwise the value stored at the path (a stored null as null).
C18_ExtractValue ==
    ExtractCalled =>
        /\ ~last.outcome.thrown
        /\ last.outcome.value =
              IF IsNullish(last.root) \/ last.path = <<>> THEN Undef
              ELSE StoredAt(last.root, PathParts(last.path), 1)

MatchPatternCalled == last.op = "matchPattern"

\* the alternatives of a pattern: an OR-set's members, or the pattern itself
Alternatives(pattern) ==
    IF IsArrayPattern(pattern) THEN {pattern.alts[i] : i \in 1..Len(pattern.alts)}
    ELSE {pattern.one}

\* the reference for one pattern string p and the string form s of a value
MatchesText(s, p) ==
    IF p = <<"*">> THEN TRUE
    ELSE IF Len(p) > 1 /\ p[Len(p)] = "*"
    THEN \E n \in 0..Len(s) : SubSeq(s, 1, n) = SubSeq(p, 1, Len(p) - 1)
    ELSE s = p

\* C19: matchPattern(value, pattern) is false for a null or undefined value under
\* every pattern; otherwise true for '*', for an OR-set iff some alternative
\* matches whatever their order, for a longer pattern ending in '*' iff the string
\* form of the value starts with the pattern minus that '*', and else iff the
\* string form equals the pattern.
C19_MatchPatternReference ==
    MatchPatternCalled =>
        last.outcome.value =
            Bool(/\ ~IsNullish(last.value)
                 /\ \E p \in Alternatives(last.pattern) :
                       MatchesText(ToStr(last.value), p))

C19_Witness ==
    /\ MatchPatternCalled
    /\ last.value = Num(123)
    /\ last.pattern = AnyOf(<<<<"1", "2", "3">>, <<"t", "r", "u", "e">>>>)
    /\ last.outcome = Return(Bool(TRUE))

\* the (path, pattern) entries of a match configuration; none when config.match
\* is absent or not a mapping
Entries(config) ==
    IF config.hasMatch THEN {config.match[j] : j \in 1..Len(config.match)} ELSE {}

\* every entry's pattern matches the value extracted from the event at its path
EveryEntryMatches(event, config) ==
    \A e \in Entries(config) : matchPattern(extractValue(event, e.k), e.v)

\* C20: matchesPatterns(event, config) is true iff config.match is a mapping with
\* at least one entry and every entry's pattern matches the value extracted at its
\* path; hence a pattern listener whose match configuration is empty, absent or
\* not a mapping is never selected by dispatch.
C20_MatchesPatterns ==
    Dispatched =>
        /\ \A i \in 1..Len(listeners.patterns) :
              matchesPatterns(last.evt, listeners.patterns[i].config)
                 <=> /\ Entries(listeners.patterns[i].config) # {}
                     /\ EveryEntryMatches(last.evt, listeners.patterns[i].config)
        /\ (last.mode = "listener" /\ ~ViaNameTable) =>
              /\ \A k \in 1..Len(last.invoked) :
                    \E i \in 1..Len(listeners.patterns) :
                       /\ last.invoked[k] = HandleCall(listeners.patterns[i].handler)
                       /\ Entries(listeners.patterns[i].config) # {}
              /\ (\A i \in 1..Len(listeners.patterns) :
                     Entries(listeners.patterns[i].config) = {})
                    => /\ last.invoked = <<>>
                       /\ ~GetOwn(last.result, S_success).b

C20_Witness ==
    /\ Dispatched /\ last.mode = "listener" /\ ~ViaNameTable
    /\ PatternHandlers = {Fn("PatEmpty"), Fn("PatK")}
    /\ listeners.patterns[1].handler = Fn("PatEmpty")
    /\ last.invoked = <<HandleCall(Fn("PatK"))>>
    /\ last.outcome.kind = "returns"


\* an HTTP dispatch whose envelope handleController returned
HttpAnswered ==
    /\ Dispatched /\ last.mode = "http"
    /\ ~handleController(Self, last.evt, last.outcome).thrown

\* the headers of the returned envelope
ResultHeaders == GetOwn(last.result, S_headers)

\* the caller's origin: the origin header of the event, if any
CallerOrigin == requestOrigin(last.evt)

\* the configured origins, as a set
AllowedOrigins == {corsConfig.allowOrigins[i] : i \in 1..Len(corsConfig.allowOrigins)}

CorsHeaderNames ==
    {S_AllowOrigin, S_AllowMethods, S_AllowHeaders, S_ExposeHeaders, S_AllowCredentials,
     S_MaxAge}

\* the headers the handler's own response object carried (none for other results)
OwnHeaders ==
    IF last.outcome.kind = "returns" /\ last.outcome.value.t = "resp"
    THEN last.outcome.value.headers
    ELSE Obj(<<>>)

CorsActive == corsConfig.defined /\ corsConfig.enabled

\* C21: with CORS enabled and allowOrigins configured, the computed
\* Access-Control-Allow-Origin is the caller's origin if it is listed, else '*' if
\* '*' is listed, else the first configured origin; with CORS absent or not
\* enabled the dispatcher adds no cross-origin header.
C21_AllowOriginChoice ==
    HttpAnswered =>
        /\ (CorsActive /\ corsConfig.hasAllowOrigins /\ AllowedOrigins # {}) =>
              /\ HasOwn(ResultHeaders, S_AllowOrigin)
              /\ GetOwn(ResultHeaders, S_AllowOrigin) =
                    IF CallerOrigin.t = "str" /\ CallerOrigin.s \in AllowedOrigins
                    THEN CallerOrigin
                    ELSE IF <<"*">> \in AllowedOrigins THEN Str(<<"*">>)
                    ELSE Str(corsConfig.allowOrigins[1])
        /\ ~CorsActive =>
              \A name \in CorsHeaderNames :
                 HasOwn(ResultHeaders, name) =>
                    /\ HasOwn(OwnHeaders, name)
                    /\ GetOwn(ResultHeaders, name) = GetOwn(OwnHeaders, name)

C21_Witness ==
    /\ HttpAnswered
    /\ corsConfig = CorsStar
    /\ CallerOrigin = Str(<<"o", "2">>)
    /\ GetOwn(ResultHeaders, S_AllowOrigin) = Str(<<"*">>)


\* the error the dispatch protocol of this invocation let escape, if any
Escaping ==
    IF last.mode = "listener" THEN handleListener(last.evt, listeners, last.outcome)
    ELSE handleController(Self, last.evt, last.outcome)

Escaped == Dispatched /\ Escaping.thrown

\* C24: an error that escapes listener or HTTP dispatch is answered with status
\* 500 and the fixed message 'Internal server error' plus the invocation's request
\* identifier; the envelope is the same whatever the message of the error.
C24_RedactedEnvelope ==
    Escaped =>
        last.result =
           Obj(<<KV(S_statusCode, Num(500)),
                 KV(S_headers, Obj(<<KV(S_ContentType, Str(S_applicationJson))>>)),
                 KV(S_body, Str(<<"{", "\"", "m", "e", "s", "s", "a", "g", "e", "\"", ":", "\"", "I", "n", "t", "e", "r", "n", "a", "l", " ", "s", "e", "r", "v", "e", "r", " ", "e", "r", "r", "o", "r", "\"", ",", "\"", "r", "e", "q", "u", "e", "s", "t", "I", "d", "\"", ":">>
                                \o Quote(last.context.awsRequestId.s) \o <<"}">>))>>)

C24_Witness ==
    /\ Escaped
    /\ last.mode = "http"
    /\ last.outcome = [kind |-> "throws", value |-> Undef]
    /\ Escaping.value = ReadError(Undef)
    /\ GetOwn(last.result, S_statusCode) = Num(500)


\* the classes registered as listeners: the values of the event-name table and
\* the handlers of the pattern list
RegisteredListeners ==
    {listeners.eventName.kv[i].v : i \in 1..Len(listeners.eventName.kv)}
    \cup PatternHandlers

\* the class listener dispatch hands to the resolver (undefined when it found none)
SelectedClass == selectListener(last.evt, listeners).listenerClass

\* C25: listener dispatch only ever selects and invokes a class passed in
\* `listeners`; an event whose name no event-name listener registered, a name equal
\* to a built-in object property included, is not an event-name match and goes
\* through the pattern scan.
C25_OnlyRegisteredListeners ==
    (Dispatched /\ last.mode = "listener") =>
        /\ Truthy(SelectedClass) => SelectedClass \in RegisteredListeners
        /\ \A k \in 1..Len(last.invoked) : last.invoked[k].target \in RegisteredListeners
        /\ ~NameRegistered =>
              SelectedClass = IF MatchingPatterns = {} THEN Undef
                              ELSE listeners.patterns[FirstMatching].handler


\* C27: toResponse() is read-only: it leaves the response object's statusCode,
\* headers, body and isBase64Encoded unchanged, so the listener-mode choice between
\* the raw body and the HTTP envelope is the same before and after the call.
C27_ToResponseReadOnly ==
    ToResponseCalled =>
        /\ last.after.statusCode = last.self.statusCode
        /\ last.after.headers = last.self.headers
        /\ last.after.body = last.self.body
        /\ last.after.isBase64Encoded = last.self.isBase64Encoded
        /\ listenerResponse(last.after) = listenerResponse(last.self)


\* the handler's own response object had set Access-Control-Allow-Origin
OwnAllowOrigin == HasOwn(OwnHeaders, S_AllowOrigin)

\* C30: with CORS enabled and a non-empty allowOrigins, the
\* Access-Control-Allow-Origin of every envelope HTTP dispatch returns is a member
\* of allowOrigins, the caller's origin being echoed only if listed, even when
\* the handler's response object had set another value.
C30_AllowOriginIsListed ==
    (HttpAnswered /\ CorsActive /\ corsConfig.hasAllowOrigins /\ AllowedOrigins # {}) =>
        /\ HasOwn(ResultHeaders, S_AllowOrigin)
        /\ GetOwn(ResultHeaders, S_AllowOrigin).t = "str"
        /\ GetOwn(ResultHeaders, S_AllowOrigin).s \in AllowedOrigins

C30_Witness ==
    /\ HttpAnswered /\ corsConfig = CorsOn
    /\ OwnAllowOrigin
    /\ GetOwn(OwnHeaders, S_AllowOrigin) = Str(<<"o", "2">>)
    /\ CallerOrigin = Str(<<"o", "1">>)
    /\ GetOwn(ResultHeaders, S_AllowOrigin) = Str(<<"o", "1">>)


\* the class HTTP dispatch resolves for the route entry of the event
ResolvedController ==
    GetProperty(controllers, splitRoute(routeLookup(Self, last.evt)).controllerPath.s)

\* the decorators of class c declare the verb and resource path of the event
DeclaresRoute(c) ==
    /\ "name" \in DOMAIN c
    /\ IsDeclaredController(c)
    /\ \E k \in 1..Len(controllerDecl(c.name).methods) :
          /\ Str(VerbName(controllerDecl(c.name).methods[k].verb))
                = Prop(last.evt, S_httpMethod)
          /\ Str(controllerDecl(c.name).route \o controllerDecl(c.name).methods[k].route)
                = Prop(last.evt, S_resource)

\* C26: every route-table destination resolves to the controller class that
\* declared the route: HTTP dispatch of a registered (verb, path) resolves, and
\* invokes the method on, the controller whose decorators declared that path, also
\* when two controllers declare the same base path.
C26_DestinationIsDeclarer ==
    (Dispatched /\ last.mode = "http" /\ HasRouteEntry) =>
        /\ DeclaresRoute(ResolvedController)
        /\ \A k \in 1..Len(last.invoked) : DeclaresRoute(last.invoked[k].target)
        /\ HandlerRan => Len(last.invoked) = 1


(***************************************************************************)
(* Several createHandler calls: on the instance under study, after it      *)
(* returned a handler, and on a second instance.                           *)
(***************************************************************************)
\* the fields createHandler(params) leaves on an instance once
\* validateHandlerParams(params) has passed
createHandler(self, params) ==
    LET cr == registerControllers([controllers |-> self.controllers, routes |-> self.routes],
                                  params.controllers.e, Len(params.controllers.e))
    IN  [controllers |-> cr.controllers,
         listeners |-> IF Truthy(params.listeners)
                       THEN registerListeners(self.listeners, params.listeners.e,
                                              Len(params.listeners.e))
                       ELSE self.listeners,
         routes |-> cr.routes,
         corsConfig |-> params.cors]

\* the pattern list grows with every call that supplies a pattern listener
MaxPatterns == 2

\* the well-formed and the malformed arguments of the repeated calls
InstanceParams ==
    {[controllers |-> ClassList(<<"Items">>), listeners |-> Undef, cors |-> CorsAbsent],
     [controllers |-> ClassList(<<"Items">>), listeners |-> ClassList(<<"OnX", "PatK">>),
      cors |-> CorsOn],
     [controllers |-> ClassList(<<"Items2">>), listeners |-> ClassList(<<"OnX2">>),
      cors |-> CorsAbsent]}

InstanceMalformed ==
    {[controllers |-> Arr(<<>>), listeners |-> ClassList(<<"OnX2">>), cors |-> CorsOn],
     [controllers |-> ClassList(<<"Items2">>), listeners |-> Str(<<"l">>), cors |-> CorsOn]}

InstanceEvents ==
    {Event(Str(<<"x">>), Absent, Absent, Absent, Absent, Absent, Absent),
     Event(Absent, Absent, Absent, Absent, Absent, Str(<<"a", "b">>), Absent),
     Event(Absent, Str(S_GET), Str(<<"/", "a">>), Absent, Absent, Absent, Absent),
     Event(Absent, Str(S_GET), Str(<<"/", "a", "/", "b">>),
           Obj(<<KV(S_origin, Str(<<"o", "1">>))>>), Absent, Absent, Absent)}

\* the second instance is configured with a setup of its own
PeerParams ==
    {[controllers |-> ClassList(<<"Items">>), listeners |-> ClassList(<<"OnX", "PatK">>),
      cors |-> CorsOn],
     [controllers |-> ClassList(<<"Items2">>), listeners |-> ClassList(<<"OnX2">>),
      cors |-> CorsAbsent]}

InstanceOutcomes == {[kind |-> "returns", value |-> Handled]}

\* a later createHandler(params) on the instance returns a handler
CreateHandlerAgain(params) ==
    /\ created
    /\ validateHandlerParams(params).ok
    /\ Len(createHandler(Self, params).listeners.patterns) <= MaxPatterns
    /\ controllers' = createHandler(Self, params).controllers
    /\ listeners' = createHandler(Self, params).listeners
    /\ routes' = createHandler(Self, params).routes
    /\ corsConfig' = createHandler(Self, params).corsConfig
    /\ last' = Configured("createHandler", params, Undef)
    /\ UNCHANGED <<created, peer, container, inflight>>

\* faulty variant: the CORS configuration is stored before the arguments are
\* validated
CreateHandlerAgainThrowsLate(params) ==
    /\ created
    /\ ~validateHandlerParams(params).ok
    /\ corsConfig' = params.cors
    /\ last' = Configured("createHandlerThrew", params,
                           NewError(validateHandlerParams(params).message))
    /\ UNCHANGED <<controllers, listeners, routes, created, peer, container, inflight>>

\* a later createHandler(params) on the instance throws
CreateHandlerAgainThrows(params) ==
    /\ created
    /\ ~validateHandlerParams(params).ok
    /\ last' = Configured("createHandlerThrew", params,
                           NewError(validateHandlerParams(params).message))
    /\ UNCHANGED <<controllers, listeners, routes, corsConfig, created, peer, container, inflight>>

\* faulty variant: the listener tables are one object shared by all instances
PeerCreateHandlerShared(params) ==
    /\ validateHandlerParams(params).ok
    /\ Len(createHandler(peer, params).listeners.patterns) <= MaxPatterns
    /\ peer' = createHandler(peer, params)
    /\ listeners' = createHandler(peer, params).listeners
    /\ last' = Configured("peerCreateHandler", params, Undef)
    /\ UNCHANGED <<controllers, routes, corsConfig, created, container, inflight>>

\* createHandler(params) on the second instance returns a handler
PeerCreateHandler(params) ==
    /\ validateHandlerParams(params).ok
    /\ Len(createHandler(peer, params).listeners.patterns) <= MaxPatterns
    /\ peer' = createHandler(peer, params)
    /\ last' = Configured("peerCreateHandler", params, Undef)
    /\ UNCHANGED <<controllers, listeners, routes, corsConfig, created, container, inflight>>

NextInstances ==
    \/ \E params \in InstanceParams : CreateHandler(params)
    \/ \E params \in InstanceMalformed : CreateHandlerThrows(params)
    \/ \E params \in InstanceParams : CreateHandlerAgain(params)
    \/ \E params \in InstanceMalformed : CreateHandlerAgainThrows(params)
    \/ \E params \in PeerParams : PeerCreateHandler(params)
    \/ \E evt \in InstanceEvents, context \in Contexts, outcome \in InstanceOutcomes :
          Dispatch(evt, context, outcome)
    \/ Returned

SpecInstances == Init /\ [][NextInstances]_vars

\* what the returned handler of an instance does with an event: the protocol it
\* runs and the handler-code call it makes when the resolver and the method succeed
Destination(self, evt) ==
    [mode |-> dispatchMode(self, evt), invoked |-> dispatchInvoked(self, evt, PlainReturn)]

\* the returned handler of an instance answers every event as that of another
SameBehaviour(self, other) ==
    \A evt \in InstanceEvents, context \in Contexts, outcome \in InstanceOutcomes :
        /\ Destination(self, evt) = Destination(other, evt)
        /\ returnedHandler(self, evt, context, outcome)
              = returnedHandler(other, evt, context, outcome)

\* C22: the tables of an instance are built once and immutable afterwards: once
\* createHandler has returned, no later operation on the instance (a dispatch,
\* another createHandler call) changes the destination the returned handler
\* selects for an event, and a dispatch writes none of the route table, the
\* event-name table, the pattern list and the CORS configuration.
C22_TablesImmutable ==
    [][created =>
          /\ \A evt \in InstanceEvents : Destination(Self', evt) = Destination(Self, evt)
          /\ last'.op = "dispatch" => Self' = Self]_vars

\* C23: two instances share no route or listener state: a createHandler call on
\* one never changes the tables of the other, nor what the other's returned
\* handler selects and answers for any event.
C23_InstancesIndependent ==
    [][/\ last'.op = "peerCreateHandler" => (Self' = Self /\ SameBehaviour(Self', Self))
       /\ last'.op \in {"createHandler", "createHandlerThrew"} =>
             (peer' = peer /\ SameBehaviour(peer', peer))]_vars

\* the second instance was configured after the first, and differently
C23_Witness ==
    /\ last.op = "peerCreateHandler"
    /\ created
    /\ peer.listeners # listeners
    /\ peer.controllers # controllers
    /\ Len(peer.listeners.patterns) > 0

\* C28: a createHandler call that throws a configuration error leaves the
\* instance as it was: the route table, the controller map, the event-name table,
\* the pattern list and the CORS configuration are unchanged, and the handlers
\* returned earlier behave as before.
C28_ThrowLeavesInstance ==
    [][last'.op = "createHandlerThrew" =>
          /\ controllers' = controllers
          /\ routes' = routes
          /\ listeners' = listeners
          /\ corsConfig' = corsConfig
          /\ created' = created
          /\ SameBehaviour(Self', Self)]_vars

\* a call with a CORS configuration threw on an instance that had returned a
\* handler without one
C28_Witness ==
    /\ last.op = "createHandlerThrew"
    /\ created
    /\ Len(listeners.patterns) > 0
    /\ last.evt.cors # corsConfig

(***************************************************************************)
(* Invocations of the returned handler that interleave at their awaits.    *)
(* An invocation runs to its first await in one step (the stage is          *)
(* registered, the class is selected and resolved), its handler method runs *)
(* in a later step, and it returns in a third.                              *)
(***************************************************************************)
StageContexts ==
    {Context(<<"i", "d">>, <<"f", ":", "d", "e", "v">>), Context(<<"i", "d">>, <<"f", ":", "p", "r", "o", "d">>), Context(<<"i", "d">>, <<"f", ":", "x">>),
     Context(<<"i", "d">>, <<"f", ":">>)}

StageEvents ==
    {Event(Str(<<"x">>), Absent, Absent, Absent, Absent, Absent, Absent),
     Event(Str(<<"y">>), Absent, Absent, Absent, Absent, Absent, Absent),
     Event(Absent, Str(S_GET), Str(<<"/", "a">>), Absent, Absent, Absent, Absent)}

StageParams ==
    {[controllers |-> ClassList(<<"Items">>), listeners |-> ClassList(<<"OnX">>),
      cors |-> CorsAbsent]}

\* how handler code gets the stage: as a constructor parameter decorated with
\* @Stage(), filled in when the class is resolved, or from the container while
\* the handler method runs
StageUses == {"injected", "resolved"}

\* the handler method returns the stage it has seen
StageOutcome(inv) ==
    IF inv.seen = <<>> THEN [kind |-> "noMethod", value |-> Undef]
    ELSE [kind |-> "returns", value |-> inv.seen[Len(inv.seen)]]

\* handler(evt, context) is called: the synchronous part up to the first await
\* registers the stage, classifies the event, selects the class and resolves it
Invoke(i, evt, context, how) ==
    /\ created
    /\ inflight[i].pc = "idle"
    /\ container' = register(container, stageOf(context))
    /\ inflight' =
          [inflight EXCEPT ![i] =
              IF dispatchInvoked(Self, evt, [kind |-> "returns", value |-> Undef]) = <<>>
              THEN Invocation("settled", evt, context, "none", <<>>)
              ELSE Invocation("resolved", evt, context, how,
                              IF how = "injected"
                              THEN <<resolveStage(register(container, stageOf(context)))>>
                              ELSE <<>>)]
    /\ last' = Idle("invoke", Undef)
    /\ UNCHANGED <<controllers, listeners, routes, corsConfig, created, peer>>

\* the await of the resolved instance is over: the handler method runs
Handle(i) ==
    /\ inflight[i].pc = "resolved"
    /\ inflight' =
          [inflight EXCEPT ![i].pc = "handled",
                           ![i].seen = IF inflight[i].how = "resolved"
                                       THEN <<resolveStage(container)>>
                                       ELSE inflight[i].seen]
    /\ last' = Idle("handle", Undef)
    /\ UNCHANGED <<controllers, listeners, routes, corsConfig, created, peer, container>>

\* the invocation resolves to its result
Complete(i) ==
    /\ inflight[i].pc \in {"settled", "handled"}
    /\ last' = Last("dispatch", inflight[i].evt, inflight[i].context, StageOutcome(inflight[i]),
                    dispatchMode(Self, inflight[i].evt),
                    dispatchInvoked(Self, inflight[i].evt, StageOutcome(inflight[i])),
                    returnedHandler(Self, inflight[i].evt, inflight[i].context,
                                    StageOutcome(inflight[i])))
    /\ inflight' = [inflight EXCEPT ![i] = NotRunning]
    /\ UNCHANGED <<controllers, listeners, routes, corsConfig, created, peer, container>>

NextStages ==
    \/ \E params \in StageParams : CreateHandler(params)
    \/ \E i \in Invocations, evt \in StageEvents, context \in StageContexts, how \in StageUses :
          Invoke(i, evt, context, how)
    \/ \E i \in Invocations : Handle(i)
    \/ \E i \in Invocations : Complete(i)

SpecStages == Init /\ [][NextStages]_vars

\* C29: the stage a handler observes is the stage of its own invocation: when
\* two invocations of different stages interleave at await points, every 'stage'
\* value the handler code of an invocation has resolved before the invocation
\* returns is the one derived from its own context, never the one the other
\* invocation registered.
C29_OwnStage ==
    \A i \in Invocations :
        \A k \in 1..Len(inflight[i].seen) :
            inflight[i].seen[k] = stageOf(inflight[i].context)
=============================================================================
